---- MODULE Spec2Model ----
(***************************************************************************)
(* A model of the crawl-navigation engine of ai-newsletter-service         *)
(* (src/main_scraper/scraper.py) and of its pure helpers.                  *)
(*                                                                         *)
(* Strings are TLA+ strings; the helpers below work on them character by   *)
(* character (SubSeq, Len, \o), the way the Python code does.              *)
(***************************************************************************)
EXTENDS Integers, Sequences, FiniteSets, TLC

VARIABLES
    GPT_API_KEY,    \* the credential load_config found ("" when there is none)
    urls_file,      \* web_search.txt: [exists, lines]
    MAX_DEPTH,      \* the depth knob the run was started with
    phase,          \* "start", "crawling", "closed" or "aborted"
    closing,        \* the engine was told to close (page budget reached)
    queue,          \* requests the scheduler holds
    inflight,       \* requests being downloaded
    seen,           \* the scheduler's duplicate filter (request fingerprints)
    visited_urls,   \* ScienceTechSpider.visited_urls
    results,        \* CollectPipeline.results
    pagecount,      \* responses received (what CLOSESPIDER_PAGECOUNT counts)
    processed,      \* callbacks and errbacks that ran their pipeline
    renders,        \* how many times the renderer was invoked, per URL
    files,          \* what close_spider wrote: [writes, debug, final]
    last,           \* what the most recent callback or errback did
    probe,          \* input and result of the last pure-function application
    orch            \* run_newsletter.main: its arguments, where it stands, what it did

vars == <<GPT_API_KEY, urls_file, MAX_DEPTH, phase, closing, queue, inflight, seen,
          visited_urls, results, pagecount, processed, renders, files, last, probe,
          orch>>

crawlVars == <<GPT_API_KEY, urls_file, MAX_DEPTH, phase, closing, queue, inflight, seen,
               visited_urls, results, pagecount, processed, renders, files, last>>

\* ------------------------------------------------------------------------
\* String helpers (Python str methods used by the source)
\* ------------------------------------------------------------------------

Char(s, i) == SubSeq(s, i, i)

StartsWith(s, p) == Len(s) >= Len(p) /\ SubSeq(s, 1, Len(p)) = p

EndsWith(s, p) == Len(s) >= Len(p) /\ SubSeq(s, Len(s) - Len(p) + 1, Len(s)) = p

\* s[i:] and s[:i] with 1-based i: the suffix from position i, the prefix before it
From(s, i) == SubSeq(s, i, Len(s))
Upto(s, i) == SubSeq(s, 1, i - 1)

\* the least and the greatest of a set of positions, none when the set is empty
LeastOr(positions, none) ==
    IF positions = {} THEN none
    ELSE CHOOSE k \in positions : \A j \in positions : k <= j

GreatestOr(positions, none) ==
    IF positions = {} THEN none
    ELSE CHOOSE k \in positions : \A j \in positions : k >= j

\* index of the first character of s, at position >= i, that is in cs; Len(s)+1 if none
FindAny(s, cs, i) == LeastOr({k \in i..Len(s) : Char(s, k) \in cs}, Len(s) + 1)

\* index of the last character of s, at position <= i, that is in cs; 0 if none
RFindAny(s, cs, i) == GreatestOr({k \in 1..i : Char(s, k) \in cs}, 0)

\* p in s  (substring test)
Contains(s, p) == \E i \in 1..(Len(s) - Len(p) + 1) : SubSeq(s, i, i + Len(p) - 1) = p

UpperChars == "ABCDEFGHIJKLMNOPQRSTUVWXYZ"
LowerChars == "abcdefghijklmnopqrstuvwxyz"

LowerChar(c) ==
    IF \E i \in 1..Len(UpperChars) : Char(UpperChars, i) = c
    THEN Char(LowerChars, CHOOSE i \in 1..Len(UpperChars) : Char(UpperChars, i) = c)
    ELSE c

\* str.lower(), half by half
RECURSIVE Lower(_)
Lower(s) ==
    IF Len(s) <= 1 THEN LowerChar(s)
    ELSE Lower(SubSeq(s, 1, Len(s) \div 2)) \o Lower(SubSeq(s, Len(s) \div 2 + 1, Len(s)))

Whitespace == {" ", "\t", "\n", "\r"}

\* str.strip()
RECURSIVE LStrip(_)
LStrip(s) == IF s # "" /\ Char(s, 1) \in Whitespace THEN LStrip(From(s, 2)) ELSE s

RECURSIVE RStrip(_)
RStrip(s) ==
    IF s # "" /\ Char(s, Len(s)) \in Whitespace THEN RStrip(Upto(s, Len(s))) ELSE s

Strip(s) == RStrip(LStrip(s))

\* str.strip("/")
RECURSIVE LStripSlash(_)
LStripSlash(s) == IF s # "" /\ Char(s, 1) = "/" THEN LStripSlash(From(s, 2)) ELSE s

RECURSIVE RStripSlash(_)
RStripSlash(s) ==
    IF s # "" /\ Char(s, Len(s)) = "/" THEN RStripSlash(Upto(s, Len(s))) ELSE s

StripSlash(s) == RStripSlash(LStripSlash(s))

\* len([p for p in s.split("/") if p]): the number of non-empty "/"-separated pieces
RECURSIVE CountSegments(_)
CountSegments(s) ==
    IF s = "" THEN 0
    ELSE LET i == FindAny(s, {"/"}, 1)
         IN  (IF i > 1 THEN 1 ELSE 0) + CountSegments(From(s, i + 1))

\* ------------------------------------------------------------------------
\* urllib.parse.urlparse, as far as the source reads it (scheme, netloc, path)
\* ------------------------------------------------------------------------

SchemeChars ==
    {Char(LowerChars, i) : i \in 1..26} \cup {Char(UpperChars, i) : i \in 1..26}
        \cup {"0", "1", "2", "3", "4", "5", "6", "7", "8", "9", "+", "-", "."}

Letters == {Char(LowerChars, i) : i \in 1..26} \cup {Char(UpperChars, i) : i \in 1..26}

\* i is the position of the first ":" of url: it ends a scheme if what precedes
\* it is a letter followed by scheme characters; 0 when the URL has no scheme
SchemeEndAt(url, i) ==
    IF /\ i > 1
       /\ i <= Len(url)
       /\ Char(url, 1) \in Letters
       /\ \A k \in 1..(i - 1) : Char(url, k) \in SchemeChars
    THEN i ELSE 0

SchemeEnd(url) == SchemeEndAt(url, FindAny(url, {":"}, 1))

\* r is what follows the netloc, q and h the positions of its first "?" and "#":
\* the path (";params" still attached), and the "?query" and "#fragment" parts,
\* each with its delimiter ("" when absent)
SplitTail(scheme, has_netloc, netloc, r, q, h) ==
    [scheme |-> scheme, has_netloc |-> has_netloc, netloc |-> netloc,
     rawpath |-> Upto(r, IF q < h THEN q ELSE h),
     query |-> IF q < h THEN SubSeq(r, q, h - 1) ELSE "",
     fragment |-> From(r, h)]

SplitAfterNetloc(scheme, has_netloc, netloc, r) ==
    SplitTail(scheme, has_netloc, netloc, r, FindAny(r, {"?"}, 1), FindAny(r, {"#"}, 1))

\* rest starts with "//": the netloc runs up to position e
SplitNetloc(scheme, rest, e) ==
    SplitAfterNetloc(scheme, TRUE, SubSeq(rest, 3, e - 1), From(rest, e))

SplitRest(scheme, rest) ==
    IF StartsWith(rest, "//")
    THEN SplitNetloc(scheme, rest, FindAny(rest, {"/", "?", "#"}, 3))
    ELSE SplitAfterNetloc(scheme, FALSE, "", rest)

SplitAt(url, e) == SplitRest(IF e = 0 THEN "" ELSE Lower(Upto(url, e)), From(url, e + 1))

\* urllib.parse.urlsplit(url)
urlsplit(url) == SplitAt(url, SchemeEnd(url))

\* urlparse (unlike urlsplit) cuts ";params" off the last path segment, which
\* starts after the "/" at position slash
PathCut(scheme, p, slash) ==
    IF scheme \in {"", "http", "https", "ftp"}
    THEN Upto(p, FindAny(p, {";"}, IF slash = 0 THEN 1 ELSE slash))
    ELSE p

PathOf(u) == PathCut(u.scheme, u.rawpath, RFindAny(u.rawpath, {"/"}, Len(u.rawpath)))

\* urlparse(url).scheme, .netloc, .path
UrlScheme(url) == urlsplit(url).scheme

UrlNetloc(url) == urlsplit(url).netloc

UrlPath(url) == PathOf(urlsplit(url))

Origin(b) == b.scheme \o "://" \o b.netloc

\* the base path up to and including its last "/"
DirOf(bp) == IF bp = "" THEN "/" ELSE Upto(bp, RFindAny(bp, {"/"}, Len(bp)) + 1)

\* urljoin with b and h the split base and href
Join(base, href, b, h) ==
    IF href = "" THEN base
    ELSE IF h.scheme # ""
    THEN IF h.scheme = b.scheme /\ h.has_netloc
         THEN h.scheme \o From(href, Len(h.scheme) + 1)
         ELSE href
    ELSE IF h.has_netloc THEN b.scheme \o ":" \o href
    ELSE IF h.rawpath = ""
    THEN Origin(b) \o b.rawpath \o (IF h.query # "" THEN h.query ELSE b.query)
             \o h.fragment
    ELSE IF StartsWith(href, "/") THEN Origin(b) \o href
    ELSE Origin(b) \o DirOf(b.rawpath) \o href

\* urllib.parse.urljoin(base, href) for an absolute http(s) base; "." and ".."
\* segments are not resolved (no modelled link has them)
urljoin(base, href) == Join(base, href, urlsplit(base), urlsplit(href))

\* ------------------------------------------------------------------------
\* Knobs (scraper.py, lines 13-18)
\* ------------------------------------------------------------------------

MAX_FANOUT_INDEX == 2
EXTRA_LINKS_ON_FOLLOW == 1
DISQUALIFIED == -999
MIN_CONTENT_LEN == 100

\* ------------------------------------------------------------------------
\* URL normalizer / same-site test
\* ------------------------------------------------------------------------

StripWww(host) == IF StartsWith(host, "www.") THEN From(host, 5) ELSE host

\* netloc.split(":")[0].lower(), then a leading "www." removed
normalize_netloc(netloc) == StripWww(Lower(Upto(netloc, FindAny(netloc, {":"}, 1))))

\* a comparison that accepts any suffix, dot or no dot (for C11)
SameHostsAnySuffix(n1, n2) ==
    IF n1 = "" \/ n2 = "" THEN FALSE
    ELSE n1 = n2 \/ EndsWith(n1, n2) \/ EndsWith(n2, n1)

\* the comparison of the two normalized hosts
SameHosts(n1, n2) ==
    IF n1 = "" \/ n2 = "" THEN FALSE
    ELSE n1 = n2 \/ EndsWith(n1, "." \o n2) \/ EndsWith(n2, "." \o n1)

\* urlparse raises ValueError("Invalid IPv6 URL") on a netloc with one bracket only
InvalidIPv6(netloc) == Contains(netloc, "[") # Contains(netloc, "]")

\* the body of same_site's try block, and its `except Exception: return False`
SameSiteOf(netloc, base_netloc) ==
    IF InvalidIPv6(netloc) THEN FALSE
    ELSE SameHosts(normalize_netloc(netloc), normalize_netloc(base_netloc))

same_site(url, base_netloc) == SameSiteOf(UrlNetloc(url), base_netloc)

\* ------------------------------------------------------------------------
\* Structural link scorer
\* ------------------------------------------------------------------------

OrSlash(path) == IF path = "" THEN "/" ELSE path

\* path = urlparse(href).path or "/"
ScoredPath(href) == OrSlash(UrlPath(href))

PathDepth(path) == CountSegments(StripSlash(path))

\* a scorer that rewards a depth of exactly 1, 2 or 3 (for C9)
DepthBonusExact(depth) ==
    (IF depth = 1 THEN 1 ELSE 0) + (IF depth = 2 THEN 1 ELSE 0)
        + (IF depth = 3 THEN 1 ELSE 0)

DepthBonus(depth) ==
    (IF depth >= 1 THEN 1 ELSE 0) + (IF depth >= 2 THEN 1 ELSE 0)
        + (IF depth >= 3 THEN 1 ELSE 0)

NonRootBonus(path) == IF path \notin {"/", ""} THEN 1 ELSE 0

TextBonus(text) ==
    (IF Len(text) >= 15 THEN 1 ELSE 0)
        + (IF Len(text) >= 30 THEN 1 ELSE 0)
        + (IF Len(text) >= 60 THEN 1 ELSE 0)

HtmlEnding(path) == EndsWith(path, ".html") \/ EndsWith(path, ".htm")

ExtensionBonus(path) == IF HtmlEnding(path) THEN 1 ELSE 0

PathScore(path) == DepthBonus(PathDepth(path)) + NonRootBonus(path) + ExtensionBonus(path)

\* l = href.lower()
BadScheme(l) == StartsWith(l, "mailto:") \/ StartsWith(l, "javascript:") \/ StartsWith(l, "#")

structural_score_link(href, text, base_url) ==
    IF ~same_site(href, UrlNetloc(base_url)) THEN DISQUALIFIED
    ELSE IF BadScheme(Lower(href)) THEN DISQUALIFIED
    ELSE PathScore(ScoredPath(href)) + TextBonus(text)

\* the loop body of filter_candidate_links_broad for one link (href and text
\* stripped, same and score computed): rest is what the later links give
Consider(href, text, same, score, skipped, rest) ==
    IF skipped \/ ~same \/ score <= DISQUALIFIED THEN rest
    ELSE <<[score |-> score, link |-> [text |-> text, href |-> href]]>> \o rest

\* the (score, link) pairs of the links that survive, in encounter order
RECURSIVE ScoredCandidates(_, _, _)
ScoredFrom(href, text, links, base_url, seenHrefs) ==
    Consider(href, text, same_site(href, UrlNetloc(base_url)),
             structural_score_link(href, text, base_url),
             href = "" \/ href \in seenHrefs,
             ScoredCandidates(Tail(links), base_url,
                              IF href = "" THEN seenHrefs ELSE seenHrefs \cup {href}))

ScoredCandidates(links, base_url, seenHrefs) ==
    IF links = <<>> THEN <<>>
    ELSE ScoredFrom(Strip(Head(links).href), Strip(Head(links).text), links, base_url,
                    seenHrefs)

\* a sort that puts a later link before an earlier one of equal score (for C19)
RECURSIVE InsertByScoreUnstable(_, _)
InsertByScoreUnstable(sorted, item) ==
    IF sorted = <<>> THEN <<item>>
    ELSE IF Head(sorted).score > item.score
    THEN <<Head(sorted)>> \o InsertByScoreUnstable(Tail(sorted), item)
    ELSE <<item>> \o sorted

\* list.sort(key=score, reverse=True): descending, equal scores keep their order
RECURSIVE InsertByScore(_, _)
InsertByScore(sorted, item) ==
    IF sorted = <<>> THEN <<item>>
    ELSE IF Head(sorted).score >= item.score
    THEN <<Head(sorted)>> \o InsertByScore(Tail(sorted), item)
    ELSE <<item>> \o sorted

RECURSIVE SortByScore(_)
SortByScore(scored) ==
    IF scored = <<>> THEN <<>>
    ELSE InsertByScore(SortByScore(SubSeq(scored, 1, Len(scored) - 1)), scored[Len(scored)])

\* a filter that forgets the [:max_out] cut (for C8)
TruncateNothing(seq, n) == seq

Truncate(seq, n) == SubSeq(seq, 1, IF Len(seq) < n THEN Len(seq) ELSE n)

LinksOf(scored) == [i \in 1..Len(scored) |-> scored[i].link]

filter_candidate_links_broad(links, base_url, max_out) ==
    LinksOf(Truncate(SortByScore(ScoredCandidates(links, base_url, {})), max_out))

\* ------------------------------------------------------------------------
\* Link extractor
\* ------------------------------------------------------------------------

EXTRACT_LINKS_LIMIT == 80

\* the loop body of extract_links_from_response for the anchor a
RECURSIVE ExtractFrom(_, _, _, _)
ExtractOne(a, abs_url, text, anchors, response_url, limit, acc) ==
    IF a.href = "" \/ (text = "" /\ abs_url = "")
    THEN ExtractFrom(Tail(anchors), response_url, limit, acc)
    ELSE ExtractFrom(Tail(anchors), response_url, limit,
                     Append(acc, [text |-> Truncate(text, 200), href |-> abs_url]))

\* extract_links_from_response: anchors are the <a> elements of the raw page,
\* [text, href] with href as written in the HTML ("" when the attribute is absent)
ExtractFrom(anchors, response_url, limit, acc) ==
    IF anchors = <<>> \/ Len(acc) >= limit THEN acc
    ELSE ExtractOne(Head(anchors), urljoin(response_url, Head(anchors).href),
                    Strip(Head(anchors).text), anchors, response_url, limit, acc)

extract_links_from_response(anchors, response_url, limit) ==
    ExtractFrom(anchors, response_url, limit, <<>>)

\* ------------------------------------------------------------------------
\* Navigation oracle client
\* ------------------------------------------------------------------------

\* Python's None, for the two clients' results
None == [some |-> FALSE]

\* ------------------------------------------------------------------------
\* Relevance classifier client
\* ------------------------------------------------------------------------

scaffolding_terms ==
    {"privacy policy", "terms of use", "about us", "contact", "advertise with us",
     "copyright", "login", "sign up", "cookie policy", "accessibility statement"}

\* a scaffolding test that forgets .lower() (for C6)
IsScaffoldingExactCase(content) == \E term \in scaffolding_terms : Contains(content, term)

IsScaffolding(content) == \E term \in scaffolding_terms : Contains(Lower(content), term)

\* JSON values an is_relevant key can hold, and Python's truth of each
JsonValues == {"true", "false", "null", "0", "1", "\"\"", "\"no\""}
Truthy(v) == v \notin {"false", "null", "0", "\"\""}

\* ------------------------------------------------------------------------
\* The modelled web: pages, link lists and backend replies the run can meet
\* ------------------------------------------------------------------------

Seed1 == "http://news.example.com/"
Seed2 == "http://www.example.org/start"
UrlA == "http://news.example.com/a/b/c.html"
UrlB == "http://news.example.com/a/b"
UrlC == "http://news.example.com/?page=2"
UrlOffsite == "http://evil.com/p"
UrlAnchor == "http://news.example.com/#top"

Text15 == "Latest headline"

\* three same-site links whose structural scores are 1, 3 and 5, in this order
IndexLinks ==
    <<[text |-> Text15, href |-> UrlC], [text |-> "b", href |-> UrlB],
      [text |-> "c", href |-> UrlA]>>

MixedLinks ==
    <<[text |-> "Mail us", href |-> "mailto:a@b.com"],
      [text |-> "Partner", href |-> UrlOffsite],
      [text |-> "Top", href |-> UrlAnchor],
      [text |-> "c", href |-> UrlA],
      [text |-> "again", href |-> UrlA],
      [text |-> "Home", href |-> Seed1]>>

RawIndexAnchors ==
    <<[text |-> Text15, href |-> "/?page=2"], [text |-> " b ", href |-> "/a/b"],
      [text |-> "", href |-> ""], [text |-> "c", href |-> "/a/b/c.html"]>>

RawMixedAnchors ==
    <<[text |-> "Mail us", href |-> "mailto:a@b.com"],
      [text |-> "Back to top", href |-> "#top"],
      [text |-> "c", href |-> "/a/b/c.html"]>>

\* exactly 100 characters, none of the scaffolding phrases
BodyArticle ==
    "Researchers report a new battery chemistry that doubles storage density in early laboratory tests..."
BodyShort == "  " \o SubSeq(BodyArticle, 1, 99) \o " \n "
BodyScaffold == SubSeq(BodyArticle, 1, 90) \o " Read our Privacy Policy."

RenderFailed == [ok |-> FALSE, body |-> "", links |-> <<>>, links_is_list |-> FALSE]

\* what puppeteer(url) can return: None, or the dict the renderer printed
RenderOutcomes ==
    {RenderFailed,
     [ok |-> TRUE, body |-> BodyArticle, links |-> IndexLinks, links_is_list |-> TRUE],
     [ok |-> TRUE, body |-> BodyArticle, links |-> MixedLinks, links_is_list |-> TRUE],
     [ok |-> TRUE, body |-> BodyScaffold, links |-> IndexLinks, links_is_list |-> TRUE],
     [ok |-> TRUE, body |-> BodyShort, links |-> <<>>, links_is_list |-> FALSE]}

NoResponse == [text |-> "", anchors |-> <<>>]

\* the raw responses of the fetcher (HTTPERROR_ALLOW_ALL: any status reaches parse)
RawResponses ==
    {[text |-> BodyArticle, anchors |-> RawIndexAnchors],
     [text |-> BodyScaffold, anchors |-> RawMixedAnchors],
     [text |-> BodyShort, anchors |-> RawIndexAnchors]}

NoReply ==
    [kind |-> "n/a", action |-> "", url |-> "", breadcrumbs |-> <<>>,
     has_is_relevant |-> FALSE, is_relevant |-> "null", summary |-> ""]

NavObject(action, url, crumbs) ==
    [NoReply EXCEPT !.kind = "object", !.action = action, !.url = url,
                    !.breadcrumbs = crumbs]

\* what the decision oracle can answer
OracleReplies ==
    {[NoReply EXCEPT !.kind = "error"], [NoReply EXCEPT !.kind = "unparsable"],
     NavObject("decide", "", <<>>),
     NavObject("follow_link", UrlB, <<>>),
     NavObject("follow_link", "/a/b/c.html", <<"http://bogus.example/">>),
     NavObject("follow_link", Seed1, <<>>),
     NavObject("summarize", "", <<>>)}

ClsObject(has, value) ==
    [NoReply EXCEPT !.kind = "object", !.has_is_relevant = has, !.is_relevant = value,
                    !.url = "http://made-up.example/", !.summary = "s"]

\* what the classifier backend can answer
ClassifierReplies ==
    {[NoReply EXCEPT !.kind = "error"], [NoReply EXCEPT !.kind = "unparsable"],
     ClsObject(FALSE, "null"), ClsObject(TRUE, "true"), ClsObject(TRUE, "false"),
     ClsObject(TRUE, "\"no\"")}

PLACEHOLDER_KEY == "your-openai-api-key-here"

ApiKeys == {"", PLACEHOLDER_KEY, "sk-live"}

\* web_search.txt: absent, empty, or some lines
UrlFiles ==
    {[exists |-> FALSE, lines |-> <<>>],
     [exists |-> TRUE, lines |-> <<"", "  ">>],
     [exists |-> TRUE, lines |-> <<Seed1>>],
     [exists |-> TRUE, lines |-> <<Seed1 \o " ", "", UrlB>>]}

DepthKnobs == {1, 2}

\* page texts handed to the relevance check on its own, each with whether it holds
\* one of the scaffolding phrases in some letter case (told by hand)
ProbeContents ==
    {[text |-> "Read our Privacy Policy before you go", scaffolding |-> TRUE],
     [text |-> "TERMS OF USE", scaffolding |-> TRUE],
     [text |-> "about us", scaffolding |-> TRUE],
     [text |-> "How a contact lens is made", scaffolding |-> TRUE],
     [text |-> "Advertise With Us", scaffolding |-> TRUE],
     [text |-> "Copyright 2024 The Daily", scaffolding |-> TRUE],
     [text |-> "LogIn", scaffolding |-> TRUE],
     [text |-> "Sign Up for the newsletter", scaffolding |-> TRUE],
     [text |-> "our cookie policy", scaffolding |-> TRUE],
     [text |-> "Accessibility Statement", scaffolding |-> TRUE],
     [text |-> "A private policy of terms", scaffolding |-> FALSE],
     [text |-> "Sign  up, log in", scaffolding |-> FALSE],
     [text |-> BodyArticle, scaffolding |-> FALSE]}

\* ------------------------------------------------------------------------
\* Tables of the pure functions over the modelled web: each holds exactly the
\* function's values on the pages, links and URLs a run can meet, computed once
\* ------------------------------------------------------------------------

KnownBodies ==
    {o.body : o \in RenderOutcomes} \cup {r.text : r \in RawResponses} \cup {""}

KnownLinkLists == {o.links : o \in RenderOutcomes}

KnownAnchorLists == {r.anchors : r \in RawResponses} \cup {<<>>}

Hrefs(links) == {links[i].href : i \in 1..Len(links)}

OraclePicks == {r.url : r \in OracleReplies} \ {""}

\* the URLs one hop from the URLs of S
Reach(S) ==
    S \cup UNION {Hrefs(l) : l \in KnownLinkLists}
      \cup {urljoin(b, h) : b \in S, h \in UNION {Hrefs(l) : l \in KnownAnchorLists}
                                             \cup OraclePicks}

ReachTwice(S) == Reach(Reach(S))

KnownUrls == ReachTwice({Seed1, UrlB})

StripTable == [b \in KnownBodies |-> Strip(b)] @@ <<>>

\* (body or "").strip()
TextOf(body) == StripTable[body]

TextsIn(table) == {table[b] : b \in DOMAIN table}

ProbeTexts == {c.text : c \in ProbeContents}

ScaffoldingTable ==
    [c \in TextsIn(StripTable) \cup ProbeTexts |-> IsScaffolding(c)] @@ <<>>

HasScaffolding(content) == ScaffoldingTable[content]

ExtractTable ==
    [k \in KnownAnchorLists \X KnownUrls |->
        extract_links_from_response(k[1], k[2], EXTRACT_LINKS_LIMIT)] @@ <<>>

ExtractedLinks(anchors, response_url) == ExtractTable[<<anchors, response_url>>]

FanOuts == {MAX_FANOUT_INDEX, EXTRA_LINKS_ON_FOLLOW + 1}

FilterDomain(extracted, urls) ==
    (KnownLinkLists \cup {extracted[a] : a \in DOMAIN extracted}) \X urls \X FanOuts

FilterTable ==
    [k \in FilterDomain(ExtractTable, KnownUrls) |->
        filter_candidate_links_broad(k[1], k[2], k[3])] @@ <<>>

Candidates(links, base_url, max_out) == FilterTable[<<links, base_url, max_out>>]

JoinTable == [k \in KnownUrls \X OraclePicks |-> urljoin(k[1], k[2])] @@ <<>>

JoinedUrl(base, href) == JoinTable[<<base, href>>]

\* ------------------------------------------------------------------------
\* The two clients
\* ------------------------------------------------------------------------

\* the follow_link decision gpt_navigation_decision returns: a relative url is
\* joined to the current one, and the url is appended to the echoed breadcrumbs
\* (the caller's when the oracle echoed none)
FollowDecision(url, prev_crumbs) ==
    [some |-> TRUE, action |-> "follow_link", url |-> url,
     breadcrumbs |-> Append(prev_crumbs, url)]

\* a navigation client whose depth test is off by one (for C4)
gpt_navigation_decision_PastDepth(key, reply, current_url, breadcrumbs, depth, max_depth) ==
    IF key = "" THEN [called |-> FALSE, result |-> None]
    ELSE IF depth > max_depth
    THEN [called |-> FALSE,
          result |-> [some |-> TRUE, action |-> "decide", url |-> current_url,
                      breadcrumbs |-> breadcrumbs]]
    ELSE IF reply.kind \in {"error", "unparsable", "empty"}
    THEN [called |-> TRUE, result |-> None]
    ELSE IF reply.action = "follow_link"
    THEN IF reply.url = "" THEN [called |-> TRUE, result |-> None]
         ELSE [called |-> TRUE,
               result |-> FollowDecision(IF UrlScheme(reply.url) = ""
                                         THEN JoinedUrl(current_url, reply.url)
                                         ELSE reply.url,
                                         IF reply.breadcrumbs # <<>>
                                         THEN reply.breadcrumbs ELSE breadcrumbs)]
    ELSE [called |-> TRUE,
          result |-> [some |-> TRUE, action |-> reply.action, url |-> reply.url,
                      breadcrumbs |-> breadcrumbs]]

\* gpt_navigation_decision.  reply is what the HTTP call and safe_parse_gpt_json
\* produce: [kind |-> "error"] (the call raised), "unparsable" (no JSON object),
\* "empty" (the object {}), or "object" with the keys action and url ("" = absent).
\* The result carries `called`: whether the oracle was called at all.
gpt_navigation_decision(key, reply, current_url, breadcrumbs, depth, max_depth) ==
    IF key = "" THEN [called |-> FALSE, result |-> None]
    ELSE IF depth >= max_depth
    THEN [called |-> FALSE,
          result |-> [some |-> TRUE, action |-> "decide", url |-> current_url,
                      breadcrumbs |-> breadcrumbs]]
    ELSE IF reply.kind \in {"error", "unparsable", "empty"}
    THEN [called |-> TRUE, result |-> None]
    ELSE IF reply.action = "follow_link"
    THEN IF reply.url = "" THEN [called |-> TRUE, result |-> None]
         ELSE [called |-> TRUE,
               result |-> FollowDecision(IF UrlScheme(reply.url) = ""
                                         THEN JoinedUrl(current_url, reply.url)
                                         ELSE reply.url,
                                         IF reply.breadcrumbs # <<>>
                                         THEN reply.breadcrumbs ELSE breadcrumbs)]
    ELSE [called |-> TRUE,
          result |-> [some |-> TRUE, action |-> reply.action, url |-> reply.url,
                      breadcrumbs |-> breadcrumbs]]

\* a classifier client that returns the backend's object as it came, url included
\* (for C21)
gpt_sci_tech_relevance_check_KeepsUrl(key, reply, content, url) ==
    IF key = "" THEN [called |-> FALSE, item |-> None]
    ELSE IF HasScaffolding(content) THEN [called |-> FALSE, item |-> None]
    ELSE IF reply.kind \in {"error", "unparsable", "empty"}
    THEN [called |-> TRUE, item |-> None]
    ELSE IF reply.has_is_relevant /\ Truthy(reply.is_relevant)
    THEN [called |-> TRUE,
          item |-> [some |-> TRUE, is_relevant |-> reply.is_relevant,
                    url |-> reply.url, summary |-> reply.summary]]
    ELSE [called |-> TRUE, item |-> None]

\* gpt_sci_tech_relevance_check.  reply is like the oracle's: "error", "unparsable",
\* "empty", or "object" with has_is_relevant, is_relevant (a JSON value), url, summary
\* a classifier client that takes an answer it cannot parse for a verdict (for C12)
gpt_sci_tech_relevance_check_KeepsUnparsed(key, reply, content, url) ==
    IF key = "" THEN [called |-> FALSE, item |-> None]
    ELSE IF HasScaffolding(content) THEN [called |-> FALSE, item |-> None]
    ELSE IF reply.kind \in {"error", "empty"} THEN [called |-> TRUE, item |-> None]
    ELSE IF reply.kind = "unparsable" \/ Truthy(reply.is_relevant)
    THEN [called |-> TRUE,
          item |-> [some |-> TRUE, is_relevant |-> reply.is_relevant, url |-> url,
                    summary |-> reply.summary]]
    ELSE [called |-> TRUE, item |-> None]

gpt_sci_tech_relevance_check(key, reply, content, url) ==
    IF key = "" THEN [called |-> FALSE, item |-> None]
    ELSE IF HasScaffolding(content) THEN [called |-> FALSE, item |-> None]
    ELSE IF reply.kind \in {"error", "unparsable", "empty"}
    THEN [called |-> TRUE, item |-> None]
    ELSE IF ~reply.has_is_relevant THEN [called |-> TRUE, item |-> None]
    ELSE IF Truthy(reply.is_relevant)
    THEN [called |-> TRUE,
          item |-> [some |-> TRUE, is_relevant |-> reply.is_relevant, url |-> url,
                    summary |-> reply.summary]]
    ELSE [called |-> TRUE, item |-> None]

\* ------------------------------------------------------------------------
\* Crawl frontier / scheduler: what one callback does
\* ------------------------------------------------------------------------

\* a request whose depth is the length of the extended breadcrumbs, the depth
\* gpt_navigation_decision writes into its follow_link decision (for C20)
ChildRequestOracleDepth(href, breadcrumbs, depth) ==
    [url |-> href, depth |-> Len(Append(breadcrumbs, href)),
     breadcrumbs |-> Append(breadcrumbs, href)]

\* scrapy.Request(url, meta={"breadcrumbs": breadcrumbs + [url], "depth": depth + 1})
ChildRequest(href, breadcrumbs, depth) ==
    [url |-> href, depth |-> depth + 1, breadcrumbs |-> Append(breadcrumbs, href)]

\* a loop that schedules every candidate, visited or not (for C17)
SpawnAll(candidates, visited, breadcrumbs, depth) ==
    [i \in 1..Len(candidates) |-> ChildRequest(candidates[i].href, breadcrumbs, depth)]

\* the loop over the structural candidates in parse's classifier fallback
RECURSIVE SpawnUnvisited(_, _, _, _)
SpawnUnvisited(candidates, visited, breadcrumbs, depth) ==
    IF candidates = <<>> THEN <<>>
    ELSE IF Head(candidates).href # "" /\ Head(candidates).href \notin visited
    THEN <<ChildRequest(Head(candidates).href, breadcrumbs, depth)>>
             \o SpawnUnvisited(Tail(candidates), visited, breadcrumbs, depth)
    ELSE SpawnUnvisited(Tail(candidates), visited, breadcrumbs, depth)

\* a classifier fallback that forgets the depth test (for C2)
ParseFallbackAtAnyDepth(links, current_url, visited, breadcrumbs, depth, max_depth) ==
    SpawnUnvisited(Candidates(links, current_url, MAX_FANOUT_INDEX),
                   visited, breadcrumbs, depth)

\* parse, lines 306-318: not relevant, follow the structural candidates
ParseFallback(links, current_url, visited, breadcrumbs, depth, max_depth) ==
    IF depth < max_depth
    THEN SpawnUnvisited(Candidates(links, current_url, MAX_FANOUT_INDEX),
                        visited, breadcrumbs, depth)
    ELSE <<>>

\* parse, lines 331-343: the extra links scheduled next to the picked one
RECURSIVE SpawnExtras(_, _, _, _, _, _)
SpawnExtras(extras, picked, visited, breadcrumbs, depth, scheduled) ==
    IF extras = <<>> THEN <<>>
    ELSE IF /\ Head(extras).href # ""
            /\ Head(extras).href # picked
            /\ Head(extras).href \notin visited
            /\ scheduled < 1 + EXTRA_LINKS_ON_FOLLOW
    THEN <<ChildRequest(Head(extras).href, breadcrumbs, depth)>>
             \o SpawnExtras(Tail(extras), picked, visited, breadcrumbs, depth,
                            scheduled + 1)
    ELSE SpawnExtras(Tail(extras), picked, visited, breadcrumbs, depth, scheduled)

\* parse, lines 321-330: the request for the picked link, if any
SpawnPicked(picked, visited, breadcrumbs, depth, max_depth) ==
    IF picked # "" /\ picked \notin visited /\ depth < max_depth
    THEN <<ChildRequest(picked, breadcrumbs, depth)>>
    ELSE <<>>

\* first is what SpawnPicked scheduled
FollowWith(first, picked, links, current_url, visited, breadcrumbs, depth, max_depth) ==
    IF depth < max_depth /\ EXTRA_LINKS_ON_FOLLOW > 0
    THEN first \o SpawnExtras(Candidates(links, current_url, EXTRA_LINKS_ON_FOLLOW + 1),
                              picked, visited, breadcrumbs, depth, Len(first))
    ELSE first

\* parse, lines 319-343: the oracle picked a link
ParseFollow(picked, links, current_url, visited, breadcrumbs, depth, max_depth) ==
    FollowWith(SpawnPicked(picked, visited, breadcrumbs, depth, max_depth),
               picked, links, current_url, visited, breadcrumbs, depth, max_depth)

\* handle_error, lines 233-243 and 255-265: the candidates loop of the error path
RECURSIVE SpawnUnvisitedBelow(_, _, _, _, _)
SpawnUnvisitedBelow(candidates, visited, breadcrumbs, depth, max_depth) ==
    IF candidates = <<>> THEN <<>>
    ELSE IF /\ Head(candidates).href # ""
            /\ Head(candidates).href \notin visited
            /\ depth < max_depth
    THEN <<ChildRequest(Head(candidates).href, breadcrumbs, depth)>>
             \o SpawnUnvisitedBelow(Tail(candidates), visited, breadcrumbs, depth,
                                    max_depth)
    ELSE SpawnUnvisitedBelow(Tail(candidates), visited, breadcrumbs, depth, max_depth)

ErrorFallback(links, url, visited, breadcrumbs, depth, max_depth) ==
    SpawnUnvisitedBelow(IF links # <<>>
                        THEN Candidates(links, url, MAX_FANOUT_INDEX)
                        ELSE <<>>,
                        visited, breadcrumbs, depth, max_depth)

\* what `last` holds before any callback ran, and the fields every run fills in
NoRun ==
    [handler |-> "none", url |-> "", depth |-> 0, breadcrumbs |-> <<>>,
     dropped |-> FALSE, renderer_invoked |-> FALSE, rendered_ok |-> FALSE,
     source |-> "none", text_content |-> "", links |-> <<>>, gate_passed |-> FALSE,
     decision_made |-> FALSE, oracle_called |-> FALSE, nav_kind |-> "n/a",
     decision |-> "n/a", picked |-> "",
     relevance_invoked |-> FALSE, classifier_called |-> FALSE, cls_kind |-> "n/a",
     item |-> None, spawned |-> <<>>, outcome |-> "none"]

\* the record of a run, stage by stage: the callback was entered, ...
Entered(handler, req) ==
    [NoRun EXCEPT !.handler = handler, !.url = req.url, !.depth = req.depth,
                  !.breadcrumbs = req.breadcrumbs]

\* ... puppeteer(url) was called, ...
Rendered(run, rendered_ok) ==
    [run EXCEPT !.renderer_invoked = TRUE, !.rendered_ok = rendered_ok]

\* ... the page's text and links were taken from the renderer or the raw response, ...
Got(run, source, text_content, links) ==
    [run EXCEPT !.source = source, !.text_content = text_content, !.links = links]

\* ... gpt_navigation_decision returned nav, ...
Decided(run, nav, nav_kind) ==
    [run EXCEPT !.gate_passed = TRUE, !.decision_made = TRUE,
                !.oracle_called = nav.called,
                !.nav_kind = IF nav.called THEN nav_kind ELSE "n/a",
                !.decision = IF nav.result.some THEN nav.result.action ELSE "none"]

\* ... gpt_sci_tech_relevance_check returned rel, ...
Classified(run, rel, cls_kind) ==
    [run EXCEPT !.relevance_invoked = TRUE, !.classifier_called = rel.called,
                !.cls_kind = IF rel.called THEN cls_kind ELSE "n/a",
                !.item = rel.item]

\* ... and the callback ended, having yielded the requests spawned
Ended(run, outcome, spawned) == [run EXCEPT !.outcome = outcome, !.spawned = spawned]

\* a parse that classifies only on an explicit "decide" (for C5)
ParseDecisionNoneIgnored(decided, req, links, nav, rel, cls_kind, visited1, max_depth) ==
    IF nav.result.some /\ nav.result.action = "decide"
    THEN IF rel.item.some THEN Ended(Classified(decided, rel, cls_kind), "emitted", <<>>)
         ELSE Ended(Classified(decided, rel, cls_kind), "fallback",
                    ParseFallback(links, req.url, visited1, req.breadcrumbs, req.depth,
                                  max_depth))
    ELSE IF nav.result.some /\ nav.result.action = "follow_link"
    THEN Ended([decided EXCEPT !.picked = nav.result.url], "follow",
               ParseFollow(nav.result.url, links, req.url, visited1, req.breadcrumbs,
                           req.depth, max_depth))
    ELSE Ended(decided, "unknown_action", <<>>)

\* a parse that yields the item and goes on to the structural candidates (for C24)
ParseDecisionEmitAndFollow(decided, req, links, nav, rel, cls_kind, visited1, max_depth) ==
    IF ~nav.result.some \/ nav.result.action = "decide"
    THEN Ended(Classified(decided, rel, cls_kind),
               IF rel.item.some THEN "emitted" ELSE "fallback",
               ParseFallback(links, req.url, visited1, req.breadcrumbs, req.depth,
                             max_depth))
    ELSE IF nav.result.action = "follow_link"
    THEN Ended([decided EXCEPT !.picked = nav.result.url], "follow",
               ParseFollow(nav.result.url, links, req.url, visited1, req.breadcrumbs,
                           req.depth, max_depth))
    ELSE Ended(decided, "unknown_action", <<>>)

\* parse, lines 298-345: decided is the run so far, nav and rel what the two
\* clients return (rel is only read on the decide path)
ParseDecision(decided, req, links, nav, rel, cls_kind, visited1, max_depth) ==
    IF ~nav.result.some \/ nav.result.action = "decide"
    THEN IF rel.item.some THEN Ended(Classified(decided, rel, cls_kind), "emitted", <<>>)
         ELSE Ended(Classified(decided, rel, cls_kind), "fallback",
                    ParseFallback(links, req.url, visited1, req.breadcrumbs, req.depth,
                                  max_depth))
    ELSE IF nav.result.action = "follow_link"
    THEN Ended([decided EXCEPT !.picked = nav.result.url], "follow",
               ParseFollow(nav.result.url, links, req.url, visited1, req.breadcrumbs,
                           req.depth, max_depth))
    ELSE Ended(decided, "unknown_action", <<>>)

\* parse, lines 267-297: the visited check, the render, the content gate
ParseContent(req, rendered_ok, text_content, links, nav_reply, cls_reply, visited, key, max_depth) ==
    IF req.url \in visited
    THEN Ended([Entered("parse", req) EXCEPT !.dropped = TRUE], "dropped", <<>>)
    ELSE IF Len(text_content) < MIN_CONTENT_LEN
    THEN Ended(Got(Rendered(Entered("parse", req), rendered_ok),
                   IF rendered_ok THEN "renderer" ELSE "raw", text_content, links),
               "discarded", <<>>)
    ELSE ParseDecision(
             Decided(Got(Rendered(Entered("parse", req), rendered_ok),
                         IF rendered_ok THEN "renderer" ELSE "raw", text_content, links),
                     gpt_navigation_decision(key, nav_reply, req.url, req.breadcrumbs,
                                             req.depth, max_depth),
                     nav_reply.kind),
             req, links,
             gpt_navigation_decision(key, nav_reply, req.url, req.breadcrumbs, req.depth,
                                     max_depth),
             gpt_sci_tech_relevance_check(key, cls_reply, text_content, req.url),
             cls_reply.kind, visited \cup {req.url}, max_depth)

\* parse(response): req is the request answered, rnd what puppeteer() returns,
\* resp the raw response, nav_reply and cls_reply what the two backends answer
ParseRun(req, rnd, resp, nav_reply, cls_reply, visited, key, max_depth) ==
    ParseContent(req, rnd.ok,
                 TextOf(IF rnd.ok THEN rnd.body ELSE resp.text),
                 IF rnd.ok /\ rnd.links_is_list THEN rnd.links
                 ELSE ExtractedLinks(resp.anchors, req.url),
                 nav_reply, cls_reply, visited, key, max_depth)

\* handle_error, lines 244-265: the oracle picked a link
ErrorFollow(next_url, links, url, visited, breadcrumbs, depth, max_depth) ==
    IF next_url # "" /\ depth < max_depth
    THEN <<ChildRequest(next_url, breadcrumbs, depth)>>
    ELSE ErrorFallback(links, url, visited, breadcrumbs, depth, max_depth)

\* handle_error, lines 225-265
ErrorDecision(decided, req, links, nav, rel, cls_kind, visited, max_depth) ==
    IF ~nav.result.some \/ nav.result.action = "decide"
    THEN IF rel.item.some THEN Ended(Classified(decided, rel, cls_kind), "emitted", <<>>)
         ELSE Ended(Classified(decided, rel, cls_kind), "fallback",
                    ErrorFallback(links, req.url, visited, req.breadcrumbs, req.depth,
                                  max_depth))
    ELSE IF nav.result.action = "follow_link"
    THEN Ended([decided EXCEPT !.picked = nav.result.url], "follow",
               ErrorFollow(nav.result.url, links, req.url, visited, req.breadcrumbs,
                           req.depth, max_depth))
    ELSE Ended(decided, "unknown_action", <<>>)

\* an error path without the 100-character gate (for C18)
ErrorContentNoGate(req, rendered_ok, text_content, links, nav_reply, cls_reply, visited, key, max_depth) ==
    IF ~rendered_ok
    THEN Ended(Rendered(Entered("handle_error", req), FALSE), "discarded", <<>>)
    ELSE ErrorDecision(
             Decided(Got(Rendered(Entered("handle_error", req), TRUE), "renderer",
                         text_content, links),
                     gpt_navigation_decision(key, nav_reply, req.url, req.breadcrumbs,
                                             req.depth, max_depth),
                     nav_reply.kind),
             req, links,
             gpt_navigation_decision(key, nav_reply, req.url, req.breadcrumbs, req.depth,
                                     max_depth),
             gpt_sci_tech_relevance_check(key, cls_reply, text_content, req.url),
             cls_reply.kind, visited, max_depth)

\* handle_error, lines 205-224: the render (no visited check), the content gate
ErrorContent(req, rendered_ok, text_content, links, nav_reply, cls_reply, visited, key, max_depth) ==
    IF ~rendered_ok
    THEN Ended(Rendered(Entered("handle_error", req), FALSE), "discarded", <<>>)
    ELSE IF Len(text_content) < MIN_CONTENT_LEN
    THEN Ended(Got(Rendered(Entered("handle_error", req), TRUE), "renderer",
                   text_content, links),
               "discarded", <<>>)
    ELSE ErrorDecision(
             Decided(Got(Rendered(Entered("handle_error", req), TRUE), "renderer",
                         text_content, links),
                     gpt_navigation_decision(key, nav_reply, req.url, req.breadcrumbs,
                                             req.depth, max_depth),
                     nav_reply.kind),
             req, links,
             gpt_navigation_decision(key, nav_reply, req.url, req.breadcrumbs, req.depth,
                                     max_depth),
             gpt_sci_tech_relevance_check(key, cls_reply, text_content, req.url),
             cls_reply.kind, visited, max_depth)

\* handle_error(failure): the fetch of req failed; there is no raw response
HandleErrorRun(req, rnd, nav_reply, cls_reply, visited, key, max_depth) ==
    ErrorContent(req, rnd.ok, TextOf(rnd.body),
                 IF rnd.links_is_list THEN rnd.links ELSE <<>>,
                 nav_reply, cls_reply, visited, key, max_depth)

\* ------------------------------------------------------------------------
\* The run: main(), the engine's scheduling, the callbacks, the result sink
\* ------------------------------------------------------------------------

\* The engine is Scrapy's, run with SCRAPY_SETTINGS: requests are deduplicated by
\* fingerprint, CLOSESPIDER_PAGECOUNT counts the responses received (a failed
\* download is not one) and closes the spider gracefully when the count is
\* reached.  DEPTH_LIMIT = MAX_DEPTH is left out: the callbacks never yield a
\* request deeper than MAX_DEPTH (C2), so it filters nothing.

\* requests the downloader handles at once (CONCURRENT_REQUESTS, scaled down)
MaxInFlight == 2

\* CLOSESPIDER_PAGECOUNT = MAX_PAGES_BUDGET; 350 in the source, scaled down here
\* so that a modelled run can reach it
MAX_PAGES_BUDGET == 2

\* the duplicate filter's fingerprint of a request: its URL without the fragment
Fingerprint(url) == Upto(url, FindAny(url, {"#"}, 1))

\* the engine schedules the requests a callback yields, in order; every request is
\* built with dont_filter=False, so one whose fingerprint was seen is dropped
RECURSIVE EnqueueAll(_, _, _)
EnqueueOne(req, fp, rest, q, sn) ==
    IF fp \in sn THEN EnqueueAll(rest, q, sn)
    ELSE EnqueueAll(rest, q \cup {req}, sn \cup {fp})

EnqueueAll(reqs, q, sn) ==
    IF reqs = <<>> THEN [queue |-> q, seen |-> sn]
    ELSE EnqueueOne(Head(reqs), Fingerprint(Head(reqs).url), Tail(reqs), q, sn)

\* start_requests: [line.strip() for line in f if line.strip()], one request each
RECURSIVE SeedRequests(_)
SeedRequest(url, rest) ==
    IF url = "" THEN SeedRequests(rest)
    ELSE <<[url |-> url, depth |-> 0, breadcrumbs |-> <<url>>]>> \o SeedRequests(rest)

SeedRequests(lines) ==
    IF lines = <<>> THEN <<>> ELSE SeedRequest(Strip(Head(lines)), Tail(lines))

start_requests(file) == IF file.exists THEN SeedRequests(file.lines) ELSE <<>>

Bump(f, u) == IF u \in DOMAIN f THEN [f EXCEPT ![u] = @ + 1] ELSE f @@ (u :> 1)

NoFiles == [writes |-> 0, debug |-> <<>>, final |-> <<>>]

NoProbe == [op |-> "none"]

\* run_newsletter.main has not been started
NoOrch == [pc |-> "idle"]

Init ==
    /\ GPT_API_KEY \in ApiKeys
    /\ urls_file \in UrlFiles
    /\ MAX_DEPTH \in DepthKnobs
    /\ phase = "start"
    /\ closing = FALSE
    /\ queue = {}
    /\ inflight = {}
    /\ seen = {}
    /\ visited_urls = {}
    /\ results = <<>>
    /\ pagecount = 0
    /\ processed = 0
    /\ renders = <<>>
    /\ files = NoFiles
    /\ last = NoRun
    /\ probe = NoProbe
    /\ orch = NoOrch

\* Crawler.crawl: the engine schedules what start_requests yields
Started(sched) ==
    /\ phase' = "crawling"
    /\ queue' = sched.queue
    /\ seen' = sched.seen

\* a main() that only refuses a missing credential (for C13)
MainMissingOnly ==
    /\ phase = "start"
    /\ IF GPT_API_KEY = ""
       THEN /\ phase' = "aborted"
            /\ UNCHANGED <<queue, seen>>
       ELSE Started(EnqueueAll(start_requests(urls_file), {}, {}))
    /\ UNCHANGED <<GPT_API_KEY, urls_file, MAX_DEPTH, closing, inflight, visited_urls,
                   results, pagecount, processed, renders, files, last, probe, orch>>

\* main(): refuse to run without a real credential, else start the crawl
Main ==
    /\ phase = "start"
    /\ IF GPT_API_KEY = "" \/ GPT_API_KEY = PLACEHOLDER_KEY
       THEN /\ phase' = "aborted"
            /\ UNCHANGED <<queue, seen>>
       ELSE Started(EnqueueAll(start_requests(urls_file), {}, {}))
    /\ UNCHANGED <<GPT_API_KEY, urls_file, MAX_DEPTH, closing, inflight, visited_urls,
                   results, pagecount, processed, renders, files, last, probe, orch>>

\* the engine hands a queued request to the downloader, unless it is closing
StartFetch(req) ==
    /\ phase = "crawling"
    /\ ~closing
    /\ req \in queue
    /\ Cardinality(inflight) < MaxInFlight
    /\ queue' = queue \ {req}
    /\ inflight' = inflight \cup {req}
    /\ UNCHANGED <<GPT_API_KEY, urls_file, MAX_DEPTH, phase, closing, seen, visited_urls,
                   results, pagecount, processed, renders, files, last, probe, orch>>

\* what a finished callback leaves behind: its item in the pipeline
\* (CollectPipeline.process_item), its requests with the scheduler (sched)
Finish(req, run, sched) ==
    /\ inflight' = inflight \ {req}
    /\ queue' = sched.queue
    /\ seen' = sched.seen
    /\ results' = IF run.item.some THEN Append(results, run.item) ELSE results
    /\ renders' = IF run.renderer_invoked THEN Bump(renders, run.url) ELSE renders
    /\ processed' = IF run.dropped THEN processed ELSE processed + 1
    /\ last' = run

\* a response arrived: the page counter counts it, and parse(response) runs: the
\* renderer answers, then the oracle if it is asked, then the classifier if it is
\* (a backend that is not called gives NoReply; a raw response that parse does
\* not read is NoResponse)
Parse(req) ==
    /\ phase = "crawling"
    /\ req \in inflight
    /\ pagecount' = pagecount + 1
    /\ closing' = (closing \/ pagecount' = MAX_PAGES_BUDGET)
    /\ \E rnd \in RenderOutcomes :
       \E resp \in (IF ~rnd.ok \/ ~rnd.links_is_list THEN RawResponses ELSE {NoResponse}) :
       \E nav \in OracleReplies \cup {NoReply} :
       \E asked \in {ParseRun(req, rnd, resp, nav, NoReply, visited_urls, GPT_API_KEY,
                              MAX_DEPTH)} :
         /\ (nav = NoReply) = ~asked.oracle_called
         /\ \E cls \in (IF asked.classifier_called THEN ClassifierReplies ELSE {NoReply}) :
            \E run \in {ParseRun(req, rnd, resp, nav, cls, visited_urls, GPT_API_KEY,
                                 MAX_DEPTH)} :
              Finish(req, run, EnqueueAll(run.spawned, queue, seen))
    /\ visited_urls' = visited_urls \cup {req.url}
    /\ UNCHANGED <<GPT_API_KEY, urls_file, MAX_DEPTH, phase, files, probe, orch>>

\* the download failed for good: handle_error(failure) runs
HandleError(req) ==
    /\ phase = "crawling"
    /\ req \in inflight
    /\ \E rnd \in RenderOutcomes :
       \E nav \in OracleReplies \cup {NoReply} :
       \E asked \in {HandleErrorRun(req, rnd, nav, NoReply, visited_urls, GPT_API_KEY,
                                    MAX_DEPTH)} :
         /\ (nav = NoReply) = ~asked.oracle_called
         /\ \E cls \in (IF asked.classifier_called THEN ClassifierReplies ELSE {NoReply}) :
            \E run \in {HandleErrorRun(req, rnd, nav, cls, visited_urls, GPT_API_KEY,
                                       MAX_DEPTH)} :
              Finish(req, run, EnqueueAll(run.spawned, queue, seen))
    /\ UNCHANGED <<GPT_API_KEY, urls_file, MAX_DEPTH, phase, closing, visited_urls,
                   pagecount, files, probe, orch>>

\* a filter that keeps only the items whose is_relevant is the JSON true (for C7)
RelevantEntriesStrict(items) == SelectSeq(items, LAMBDA i : i.is_relevant = "true")

\* [i for i in self.results if i.get("is_relevant")]
RelevantEntries(items) == SelectSeq(items, LAMBDA i : Truthy(i.is_relevant))

\* an engine that closes the spider the moment the page budget is reached, with
\* downloads still in flight (for C25)
close_spider_OnBudget ==
    /\ phase = "crawling"
    /\ closing \/ (queue = {} /\ inflight = {})
    /\ phase' = "closed"
    /\ files' = [writes |-> files.writes + 1,
                 debug |-> results,
                 final |-> RelevantEntries(results)]
    /\ UNCHANGED <<GPT_API_KEY, urls_file, MAX_DEPTH, closing, queue, inflight, seen,
                   visited_urls, results, pagecount, processed, renders, last, probe, orch>>

\* CollectPipeline.close_spider: the engine is idle (or closing and drained)
close_spider ==
    /\ phase = "crawling"
    /\ inflight = {}
    /\ queue = {} \/ closing
    /\ phase' = "closed"
    /\ files' = [writes |-> files.writes + 1,
                 debug |-> results,
                 final |-> RelevantEntries(results)]
    /\ UNCHANGED <<GPT_API_KEY, urls_file, MAX_DEPTH, closing, queue, inflight, seen,
                   visited_urls, results, pagecount, processed, renders, last, probe, orch>>

Next ==
    \/ Main
    \/ \E req \in queue : StartFetch(req)
    \/ \E req \in inflight : Parse(req)
    \/ \E req \in inflight : HandleError(req)
    \/ close_spider

Spec == Init /\ [][Next]_vars

\* The reactor keeps turning: a download ends (DOWNLOAD_TIMEOUT, RETRY_TIMES), a
\* callback returns (the renderer and both backends are called with a timeout), an
\* idle engine closes the spider.  So a step that can be taken is taken.  The
\* runs followed to their end are those of one seed file at most, MAX_DEPTH = 1.
InitLive ==
    /\ Init
    /\ MAX_DEPTH = 1
    /\ urls_file.lines \in {<<>>, <<Seed1>>}

SpecLive == InitLive /\ [][Next]_vars /\ WF_vars(Next)

\* ------------------------------------------------------------------------
\* The pure functions on their own: each step applies one of them to an input
\* and keeps the input and the result in `probe`; no crawl runs
\* ------------------------------------------------------------------------

ProbeBases == {"http://x.com", Seed1}

ProbeHrefs ==
    {"http://x.com", "http://x.com/", "http://x.com/a", "http://x.com/a/b",
     "http://x.com/a/b/c", "http://x.com/a/b/c.html", "http://x.com/a.htm",
     "http://x.com/a;v=1", "HTTP://WWW.X.COM:80/A", "http://blog.x.com/p",
     "http://evil.com/p", "/a/b", "mailto:a@b.com", "MAILTO:a@b.com",
     "javascript:void(0)", "#top", "http://x.com/#top", UrlA, UrlAnchor}

ProbeAnchorTexts ==
    {"", Text15, "A headline of thirty characters",
     "A much longer headline, sixty characters or more, for the top bonus"}

\* path segments to append to an href
ProbeSegments == {"d", "d/e", "index.html", "e.htm"}

AppendSegments(href, segments) ==
    IF EndsWith(href, "/") THEN href \o segments ELSE href \o "/" \o segments

InitPure ==
    /\ GPT_API_KEY = "sk-live"
    /\ urls_file = [exists |-> FALSE, lines |-> <<>>]
    /\ MAX_DEPTH = 2
    /\ phase = "start"
    /\ closing = FALSE
    /\ queue = {}
    /\ inflight = {}
    /\ seen = {}
    /\ visited_urls = {}
    /\ results = <<>>
    /\ pagecount = 0
    /\ processed = 0
    /\ renders = <<>>
    /\ files = NoFiles
    /\ last = NoRun
    /\ probe = NoProbe
    /\ orch = NoOrch

\* structural_score_link(href, text, base_url)
ApplyScore ==
    /\ probe = NoProbe
    /\ \E href \in ProbeHrefs, text \in ProbeAnchorTexts, base_url \in ProbeBases :
         probe' = [op |-> "score", href |-> href, text |-> text, base_url |-> base_url,
                   score |-> structural_score_link(href, text, base_url)]
    /\ UNCHANGED <<crawlVars, orch>>

\* structural_score_link of a scored, qualified href with path segments appended
ApplyAppend ==
    /\ probe.op = "score"
    /\ probe.score > DISQUALIFIED
    /\ \E segments \in ProbeSegments :
       \E longer \in {AppendSegments(probe.href, segments)} :
         probe' = [op |-> "append", href |-> longer, text |-> probe.text,
                   base_url |-> probe.base_url,
                   score |-> structural_score_link(longer, probe.text, probe.base_url),
                   orig_href |-> probe.href, orig_score |-> probe.score]
    /\ UNCHANGED <<crawlVars, orch>>

\* gpt_sci_tech_relevance_check(content, url), the backend answering reply if called
ApplyRelevance ==
    /\ probe = NoProbe
    /\ \E c \in ProbeContents, reply \in ClassifierReplies :
       \E rel \in {gpt_sci_tech_relevance_check(GPT_API_KEY, reply, c.text, Seed1)} :
         probe' = [op |-> "relevance", content |-> c.text, scaffolding |-> c.scaffolding,
                   reply |-> reply, called |-> rel.called, item |-> rel.item]
    /\ UNCHANGED <<crawlVars, orch>>

\* URLs for same_site, each with the host a reader takes from it: lowercased,
\* without port and without a leading "www."; parses is FALSE where urlparse raises
ProbeSites ==
    {[url |-> "http://blog.example.com/p", host |-> "blog.example.com", parses |-> TRUE],
     [url |-> "http://example.com/", host |-> "example.com", parses |-> TRUE],
     [url |-> "HTTP://WWW.Example.COM:8080/x", host |-> "example.com", parses |-> TRUE],
     [url |-> "http://evil.com/p", host |-> "evil.com", parses |-> TRUE],
     [url |-> "http://evilexample.com/", host |-> "evilexample.com", parses |-> TRUE],
     [url |-> "http://example.com.evil.com/", host |-> "example.com.evil.com",
      parses |-> TRUE],
     [url |-> "http://www./", host |-> "", parses |-> TRUE],
     [url |-> "/a/b", host |-> "", parses |-> TRUE],
     [url |-> "mailto:a@b.com", host |-> "", parses |-> TRUE],
     [url |-> "", host |-> "", parses |-> TRUE],
     [url |-> "http://[example.com/p", host |-> "", parses |-> FALSE],
     [url |-> "http://example.com]/p", host |-> "", parses |-> FALSE]}

\* base netlocs for same_site, each with its host
ProbeNetlocs ==
    {[netloc |-> "example.com", host |-> "example.com"],
     [netloc |-> "WWW.EXAMPLE.COM:80", host |-> "example.com"],
     [netloc |-> "blog.example.com", host |-> "blog.example.com"],
     [netloc |-> "www.blog.example.com:8080", host |-> "blog.example.com"],
     [netloc |-> "evil.com", host |-> "evil.com"],
     [netloc |-> "", host |-> ""],
     [netloc |-> ":80", host |-> ""],
     [netloc |-> "www.", host |-> ""]}

\* same_site(url, base_netloc)
ApplySameSite ==
    /\ probe = NoProbe
    /\ \E site \in ProbeSites, base \in ProbeNetlocs :
         probe' = [op |-> "same_site", url |-> site.url, url_host |-> site.host,
                   parses |-> site.parses, base_netloc |-> base.netloc,
                   base_host |-> base.host,
                   same |-> same_site(site.url, base.netloc)]
    /\ UNCHANGED <<crawlVars, orch>>

\* link lists for filter_candidate_links_broad: duplicates (one only after
\* stripping), equal scores, off-site, mailto: and empty hrefs, a subdomain
ProbeLinkLists ==
    {<<>>,
     <<[href |-> "http://x.com/a", text |-> "a"],
       [href |-> "http://x.com/a/b/c.html", text |-> "c"],
       [href |-> "http://x.com/a/b", text |-> "b"],
       [href |-> "http://x.com/a",
        text |-> "A much longer headline, sixty characters or more, for the top bonus"],
       [href |-> "http://evil.com/p/q/r.html", text |-> "evil"],
       [href |-> "mailto:a@b.com", text |-> "mail"],
       [href |-> "http://x.com/b", text |-> "b2"],
       [href |-> "  http://x.com/a/b  ", text |-> "again"],
       [href |-> "", text |-> "empty"],
       [href |-> "http://blog.x.com/p/q/r", text |-> "sub"]>>,
     <<[href |-> "http://x.com/a", text |-> "1"], [href |-> "http://x.com/b", text |-> "2"],
       [href |-> "http://x.com/c", text |-> "3"], [href |-> "http://x.com/d", text |-> "4"]>>,
     <<[href |-> "http://evil.com/", text |-> "evil"],
       [href |-> "javascript:void(0)", text |-> "js"], [href |-> "#top", text |-> "top"]>>,
     <<[href |-> "http://x.com/", text |-> " home "],
       [href |-> "http://x.com/a/b/c/d/e", text |-> Text15],
       [href |-> "http://x.com/a.htm", text |-> ""]>>}

ProbeMaxOuts == {0, 1, 2, 3, 10}

\* filter_candidate_links_broad(links, base_url, max_out)
ApplyFilter ==
    /\ probe = NoProbe
    /\ \E links \in ProbeLinkLists, max_out \in ProbeMaxOuts :
         probe' = [op |-> "filter", links |-> links, base_url |-> "http://x.com",
                   max_out |-> max_out,
                   out |-> filter_candidate_links_broad(links, "http://x.com", max_out)]
    /\ UNCHANGED <<crawlVars, orch>>

\* ------------------------------------------------------------------------
\* safe_parse_gpt_json
\* ------------------------------------------------------------------------

\* ^ and $ under re.MULTILINE: position i starts a line, position i ends one
AtLineStart(text, i) == i = 1 \/ Char(text, i - 1) = "\n"
AtLineEnd(text, i) == i > Len(text) \/ Char(text, i) = "\n"

\* \s*: the first position at or after i that holds no whitespace
SkipWhitespace(text, i) ==
    LeastOr({k \in i..Len(text) : Char(text, k) \notin Whitespace}, Len(text) + 1)

\* the code fence, three backquotes in the source: a string of this module cannot
\* hold a backquote, so "~" stands for it (no response here holds a "~" of its own)
Fence == "~~~"

FenceAt(text, i) == i + 2 <= Len(text) /\ SubSeq(text, i, i + 2) = Fence

JsonTagAt(text, i) == i + 3 <= Len(text) /\ SubSeq(text, i, i + 3) = "json"

\* the pattern of re.sub at position i, j being where the whitespace that starts at
\* i ends: a fence at the start of a line matches with the word json and the
\* whitespace after it, a fence at the end of a line with the whitespace before it.
\* The position after the match, 0 when there is none
MatchEndAt(text, i, j) ==
    IF AtLineStart(text, i) /\ FenceAt(text, i)
    THEN SkipWhitespace(text, IF JsonTagAt(text, i + 3) THEN i + 7 ELSE i + 3)
    ELSE IF FenceAt(text, j) /\ AtLineEnd(text, j + 3) THEN j + 3
    ELSE 0

MatchEnd(text, i) == MatchEndAt(text, i, SkipWhitespace(text, i))

\* re.sub with re.MULTILINE from position i on: the text up to the next match (it
\* starts at k), then the rest after the match
RECURSIVE RemoveFencesFrom(_, _)
CutMatch(text, i, k) ==
    IF k > Len(text) THEN From(text, i)
    ELSE SubSeq(text, i, k - 1) \o RemoveFencesFrom(text, MatchEnd(text, k))

RemoveFencesFrom(text, i) ==
    CutMatch(text, i, LeastOr({k \in i..Len(text) : MatchEnd(text, k) > 0}, Len(text) + 1))

RemoveFences(text) == RemoveFencesFrom(text, 1)

\* re.search of a greedy brace-to-brace pattern with re.DOTALL: the text from the
\* first opening brace to the last closing one (open and close are their
\* positions), no match when no closing brace follows an opening one
GreedySpan(text, open, close) ==
    IF open < close THEN [some |-> TRUE, group |-> SubSeq(text, open, close)] ELSE None

BraceSearch(text) ==
    GreedySpan(text, FindAny(text, {"{"}, 1), RFindAny(text, {"}"}, Len(text)))

\* json.loads on the texts met here: each of these is one JSON object, and a text
\* that is none of them (an object followed by more text, {not json}) raises
JsonObjects ==
    [t \in {"{\"action\": \"decide\"}"} |-> [action |-> "decide"]]
    @@ [t \in {"{\"action\": \"follow_link\", \"url\": \"/a/b\"}"} |->
            [action |-> "follow_link", url |-> "/a/b"]]
    @@ [t \in {"{\"a\": {\"b\": 1}}"} |-> [a |-> [b |-> 1]]]
    @@ [t \in {"{\"s\": \"}\"}"} |-> [s |-> "}"]]

json_loads(text) ==
    IF text \in DOMAIN JsonObjects THEN [some |-> TRUE, object |-> JsonObjects[text]]
    ELSE None

ParseMatch(match) == IF match.some THEN json_loads(match.group) ELSE None

safe_parse_gpt_json(text) == ParseMatch(BraceSearch(Strip(RemoveFences(Strip(text)))))

\* responses: what stands before the object, the object, what stands after it
ProbePrefixes == {"", "~~~json\n", "~~~\n", "Here is the decision:\n", "Sure.\n~~~json\n", "  "}

ProbeSuffixes ==
    {"", "\n~~~", "\nHope this helps.", "\n~~~\nUse {url} as given.", " (see {} above)", "\n}"}

\* responses that hold no JSON object
ProbeNoObject == {"", "no json here", "{", "}{", "{not json}", "~~~json\n~~~", "[1, 2]"}

ParseProbe(pre, object, post) ==
    [op |-> "safe_parse", pre |-> pre, object |-> object, post |-> post,
     text |-> pre \o object \o post,
     out |-> safe_parse_gpt_json(pre \o object \o post)]

\* safe_parse_gpt_json(text, url)
ApplyParse ==
    /\ probe = NoProbe
    /\ \/ \E pre \in ProbePrefixes, object \in DOMAIN JsonObjects, post \in ProbeSuffixes :
            probe' = ParseProbe(pre, object, post)
       \/ \E text \in ProbeNoObject : probe' = ParseProbe(text, "", "")
    /\ UNCHANGED <<crawlVars, orch>>

NextPure ==
    \/ ApplyScore \/ ApplyAppend \/ ApplyRelevance \/ ApplySameSite \/ ApplyFilter
    \/ ApplyParse

SpecPure == InitPure /\ [][NextPure]_vars

\* ------------------------------------------------------------------------
\* run_newsletter.main: harvester, scraper, email writer, then the shutdown
\* ------------------------------------------------------------------------

\* argparse: the two flags, --instance-id and --region ("" when not given and
\* not in the environment)
OrchArgs ==
    [always_shutdown : BOOLEAN, shutdown_on_success : BOOLEAN,
     instance_id : {"", "i-0abc"}, region : {"", "eu-west-1"}]

\* how a step can end: it returns, it raises an Exception, or it leaves by a
\* BaseException (SystemExit, KeyboardInterrupt), which `except Exception` lets pass
StepOutcomes == {"returned", "raised", "exited"}

\* main() up to the try: ok = False, nothing has run
OrchStart(args) ==
    [pc |-> "run_api_harvester", args |-> args, ok |-> FALSE, steps |-> <<>>,
     outcomes |-> <<>>, stop_requests |-> <<>>, propagated |-> FALSE]

InitOrch ==
    /\ GPT_API_KEY = "sk-live"
    /\ urls_file = [exists |-> FALSE, lines |-> <<>>]
    /\ MAX_DEPTH = 2
    /\ phase = "start"
    /\ closing = FALSE
    /\ queue = {}
    /\ inflight = {}
    /\ seen = {}
    /\ visited_urls = {}
    /\ results = <<>>
    /\ pagecount = 0
    /\ processed = 0
    /\ renders = <<>>
    /\ files = NoFiles
    /\ last = NoRun
    /\ probe = NoProbe
    /\ \E args \in OrchArgs : orch = OrchStart(args)

\* a step of the try block ran and ended with outcome: the next step follows when
\* it returned, else control goes to the except/finally clauses
a_step_ran(o, step, outcome, next_pc) ==
    [o EXCEPT !.steps = Append(@, step),
              !.outcomes = Append(@, outcome),
              !.pc = IF outcome = "returned" THEN next_pc ELSE "finally"]

\* run_api_harvester(logf): a non-zero return code is raised as a RuntimeError
run_api_harvester ==
    /\ orch.pc = "run_api_harvester"
    /\ \E result \in {"returncode 0", "returncode 1", "raised", "exited"} :
         orch' = a_step_ran(orch, "api_harvester",
                            IF result = "returncode 0" THEN "returned"
                            ELSE IF result = "exited" THEN "exited" ELSE "raised",
                            "scraper.main")
    /\ UNCHANGED <<crawlVars, probe>>

\* scraper.main()
scraper_main ==
    /\ orch.pc = "scraper.main"
    /\ \E outcome \in StepOutcomes :
         orch' = a_step_ran(orch, "scraper", outcome, "email_writer.main")
    /\ UNCHANGED <<crawlVars, probe>>

\* email_writer.main(), and ok = True when it returned
email_writer_main ==
    /\ orch.pc = "email_writer.main"
    /\ \E outcome \in StepOutcomes :
         orch' = [a_step_ran(orch, "email_writer", outcome, "finally")
                      EXCEPT !.ok = (outcome = "returned")]
    /\ UNCHANGED <<crawlVars, probe>>

\* a shutdown decision that takes --shutdown-on-success alone for enough (for C26)
do_shutdown_WhateverTheRun(args, ok) == args.always_shutdown \/ args.shutdown_on_success

\* the finally clause, lines 99-107
do_shutdown(args, ok) == args.always_shutdown \/ (args.shutdown_on_success /\ ok)

\* lines 111-117: stop_instance is called when both are given
StopRequests(args, shutdown) ==
    IF shutdown /\ args.instance_id # "" /\ args.region # ""
    THEN <<[instance_id |-> args.instance_id, region |-> args.region]>>
    ELSE <<>>

\* the finally clause; an exception that is no Exception goes on to the caller
finally ==
    /\ orch.pc = "finally"
    /\ orch' = [orch EXCEPT !.pc = "done",
                            !.stop_requests =
                                @ \o StopRequests(orch.args, do_shutdown(orch.args, orch.ok)),
                            !.propagated = (orch.outcomes # <<>>
                                /\ orch.outcomes[Len(orch.outcomes)] = "exited")]
    /\ UNCHANGED <<crawlVars, probe>>

NextOrch == run_api_harvester \/ scraper_main \/ email_writer_main \/ finally

SpecOrch == InitOrch /\ [][NextOrch]_vars

\* ------------------------------------------------------------------------
\* Properties
\* ------------------------------------------------------------------------

\* C1: no URL is rendered more than once: every URL the renderer was invoked for
\* was rendered once and is in the visited set, and a task dropped because its
\* URL was visited rendered nothing, yielded nothing and spawned nothing
C1_IdempotentDedup ==
    /\ \A u \in DOMAIN renders : renders[u] = 1
    /\ \A u \in DOMAIN renders : u \in visited_urls
    /\ last.dropped =>
         (~last.renderer_invoked /\ ~last.item.some /\ last.spawned = <<>>)

\* C2: every task queued, in flight, processed or just spawned has a depth of at
\* most MAX_DEPTH, whatever the oracle answered
C2_DepthBound ==
    /\ \A r \in queue \cup inflight : r.depth <= MAX_DEPTH
    /\ last.depth <= MAX_DEPTH
    /\ \A i \in 1..Len(last.spawned) : last.spawned[i].depth <= MAX_DEPTH

\* a task at the depth limit fell back to the structural candidates, had links,
\* and spawned nothing, while a task at the limit is still queued
C2_Witness ==
    /\ last.depth = MAX_DEPTH
    /\ last.outcome = "fallback"
    /\ last.links # <<>>
    /\ last.spawned = <<>>
    /\ \E r \in queue : r.depth = MAX_DEPTH

\* C3: the number of tasks processed (callbacks and errbacks that ran their
\* pipeline) never exceeds the page budget, and once it has reached the budget
\* the engine schedules nothing more
C3_BudgetBound ==
    /\ processed <= MAX_PAGES_BUDGET
    /\ processed >= MAX_PAGES_BUDGET => closing

\* what gpt_navigation_decision returns for the task r when it decides by itself
DecideHere(r) ==
    [called |-> FALSE,
     result |-> [some |-> TRUE, action |-> "decide", url |-> r.url,
                 breadcrumbs |-> r.breadcrumbs]]

\* C4: for a task at or past MAX_DEPTH the navigation client returns "decide" with
\* the task's own URL and does not call the oracle, whatever the oracle would say
C4_DecideAtMaxDepth ==
    /\ \A r \in inflight : r.depth >= MAX_DEPTH =>
         \A reply \in OracleReplies :
            gpt_navigation_decision(GPT_API_KEY, reply, r.url, r.breadcrumbs, r.depth,
                                    MAX_DEPTH) = DecideHere(r)
    /\ (last.decision_made /\ last.depth >= MAX_DEPTH) =>
         (last.decision = "decide" /\ ~last.oracle_called)

\* a task at the depth limit passed the content gate and was decided
C4_Witness ==
    /\ last.handler = "parse"
    /\ last.decision_made
    /\ last.depth = MAX_DEPTH
    /\ last.decision = "decide"
    /\ \E r \in inflight : r.depth = MAX_DEPTH

OracleFailures ==
    {[NoReply EXCEPT !.kind = "error"], [NoReply EXCEPT !.kind = "unparsable"]}

\* two runs that differ at most in what the oracle answered
SameButDecision(a, b) ==
    [a EXCEPT !.nav_kind = "", !.decision = ""]
        = [b EXCEPT !.nav_kind = "", !.decision = ""]

\* C5: when the oracle call fails or its answer cannot be parsed there is no
\* decision, the relevance check runs, the task ends as it does on "decide" (an
\* item or the structural fallback), and the crawl goes on
C5_OracleFailureDecides ==
    /\ (last.oracle_called /\ last.nav_kind \in {"error", "unparsable"}) =>
         /\ last.decision = "none"
         /\ last.relevance_invoked
         /\ last.outcome \in {"emitted", "fallback"}
         /\ phase \in {"crawling", "closed"}
    /\ \A r \in inflight, rnd \in RenderOutcomes, resp \in RawResponses,
          cls \in ClassifierReplies, failure \in OracleFailures :
         /\ SameButDecision(
                ParseRun(r, rnd, resp, failure, cls, visited_urls, GPT_API_KEY,
                         MAX_DEPTH),
                ParseRun(r, rnd, resp, NavObject("decide", "", <<>>), cls, visited_urls,
                         GPT_API_KEY, MAX_DEPTH))
         /\ SameButDecision(
                HandleErrorRun(r, rnd, failure, cls, visited_urls, GPT_API_KEY,
                               MAX_DEPTH),
                HandleErrorRun(r, rnd, NavObject("decide", "", <<>>), cls, visited_urls,
                               GPT_API_KEY, MAX_DEPTH))

\* the oracle's answer could not be parsed, the classifier ran and found the page
\* relevant
C5_Witness ==
    /\ last.oracle_called
    /\ last.nav_kind = "unparsable"
    /\ last.classifier_called
    /\ last.outcome = "emitted"
    /\ phase = "crawling"

\* C6: for content holding a scaffolding phrase, in any letter case, the relevance
\* check yields no item and does not call the classifier backend
C6_ScaffoldingShortCircuit ==
    (probe.op = "relevance" /\ probe.scaffolding) => (~probe.called /\ ~probe.item.some)

\* the check ran on "TERMS OF USE" with a backend that would have said relevant
C6_Witness ==
    /\ probe.op = "relevance"
    /\ probe.scaffolding
    /\ probe.content = "TERMS OF USE"
    /\ probe.reply = ClsObject(TRUE, "true")
    /\ ~probe.called

\* the items of a collection whose is_relevant is true (Python's truth)
RelevantCount(items) ==
    Cardinality({i \in 1..Len(items) : Truthy(items[i].is_relevant)})

C8_Scenario ==
    /\ urls_file.lines = <<Seed1>>
    /\ MAX_DEPTH = 1
    /\ last.url = Seed1
    /\ last.depth = 0
    /\ last.gate_passed
    /\ last.links = IndexLinks
    /\ last.oracle_called
    /\ last.nav_kind = "error"

\* C8: in that scenario the links score 1, 3 and 5, there is no decision, the
\* relevance check runs; a relevant page gives exactly one item, with the seed's
\* URL, and no child; otherwise exactly the two top-scoring links are scheduled,
\* both at depth 1
C8_EndToEnd ==
    C8_Scenario =>
        /\ <<structural_score_link(UrlC, Text15, Seed1),
             structural_score_link(UrlB, "b", Seed1),
             structural_score_link(UrlA, "c", Seed1)>> = <<1, 3, 5>>
        /\ last.decision = "none"
        /\ last.relevance_invoked
        /\ IF last.item.some
           THEN /\ last.item.url = Seed1
                /\ results = <<last.item>>
                /\ last.spawned = <<>>
           ELSE /\ results = <<>>
                /\ last.spawned =
                     <<[url |-> UrlA, depth |-> 1, breadcrumbs |-> <<Seed1, UrlA>>],
                       [url |-> UrlB, depth |-> 1, breadcrumbs |-> <<Seed1, UrlB>>]>>

\* the scenario happened and the page was found not relevant by the classifier
C8_Witness ==
    /\ C8_Scenario
    /\ last.classifier_called
    /\ ~last.item.some
    /\ Len(last.spawned) = 2

\* C9 as stated: appending path segments to a qualified href never lowers its score
C9_ScorerMonotone ==
    probe.op = "append" => probe.score >= probe.orig_score

\* whether the appended segments cost the href its .html/.htm bonus
LostExtension(orig_href, href) ==
    HtmlEnding(ScoredPath(orig_href)) /\ ~HtmlEnding(ScoredPath(href))

\* C9, amended: appending path segments to a qualified href keeps it qualified and
\* never lowers its score, except by the one point of the .html/.htm bonus when
\* the original path ended in .html/.htm and the longer one does not
C9_ScorerMonotoneButExtension ==
    probe.op = "append" =>
        /\ probe.score > DISQUALIFIED
        /\ probe.score + (IF LostExtension(probe.orig_href, probe.href) THEN 1 ELSE 0)
               >= probe.orig_score

\* /a/b/c.html scored 5; with /d appended it scores 4
C9_Witness ==
    /\ probe.op = "append"
    /\ probe.orig_href = "http://x.com/a/b/c.html"
    /\ probe.href = "http://x.com/a/b/c.html/d"
    /\ probe.orig_score = 5
    /\ probe.score = 4

\* href is the page's own URL with a fragment: an in-page anchor of the page
InPageAnchor(href, page) == Fingerprint(href) = Fingerprint(page) /\ href # Fingerprint(href)

\* what the scorer is to disqualify
ToDisqualify(href, page) ==
    \/ ~same_site(href, UrlNetloc(page))
    \/ BadScheme(Lower(href))
    \/ InPageAnchor(href, page)

\* C10: no link scheduled by the structural fallback is off-site, a mailto: or
\* javascript: link, or an in-page anchor of the page
C10_NoDisqualifiedScheduled ==
    last.outcome = "fallback" =>
        \A i \in 1..Len(last.spawned) : ~ToDisqualify(last.spawned[i].url, last.url)

\* a is b with one or more labels in front: a ends with "." and b
DotSuffix(a, b) == EndsWith(a, "." \o b)

FetchFailed(run) == run.handler = "handle_error"

RenderFailure(run) == run.renderer_invoked /\ ~run.rendered_ok

InsufficientContent(run) == run.source # "none" /\ ~run.gate_passed

OracleFailed(run) == run.oracle_called /\ run.nav_kind \in {"error", "unparsable"}

ClassifierFailed(run) == run.classifier_called /\ run.cls_kind \in {"error", "unparsable"}

AnyFailure(run) ==
    \/ FetchFailed(run)
    \/ RenderFailure(run)
    \/ InsufficientContent(run)
    \/ OracleFailed(run)
    \/ ClassifierFailed(run)

\* the run goes on to its end: it never leaves a task behind in flight, leaves
\* one queued only when the page budget closed it, and it ends
RunGoesOn ==
    /\ [](phase = "closed" => (inflight = {} /\ (queue = {} \/ closing)))
    /\ (phase = "crawling") ~> (phase = "closed")

\* C12 as stated: a task that met a recoverable failure ends discarded or in the
\* structural link-following, and the run goes on
C12_FailuresDegrade ==
    /\ [](AnyFailure(last) => last.outcome \in {"discarded", "fallback"})
    /\ RunGoesOn

\* how a task ends after each kind of failure
RecoveredLocally(run) ==
    /\ FetchFailed(run) /\ RenderFailure(run) => run.outcome = "discarded"
    /\ ~FetchFailed(run) /\ RenderFailure(run) => run.source = "raw"
    /\ InsufficientContent(run) =>
          (run.outcome = "discarded" /\ ~run.item.some /\ run.spawned = <<>>)
    /\ OracleFailed(run) =>
          (run.relevance_invoked /\ run.outcome \in {"emitted", "fallback"})
    /\ ClassifierFailed(run) => (~run.item.some /\ run.outcome = "fallback")
    /\ AnyFailure(run) =>
          run.outcome \in {"discarded", "fallback", "emitted", "follow", "unknown_action"}
    /\ run.outcome = "emitted" => ~InsufficientContent(run) /\ ~ClassifierFailed(run)

\* C12, amended: a failed render on the error path and insufficient content
\* discard the task; a classifier failure sends it to the structural
\* link-following; after a failed fetch, a failed render with a raw response, or
\* an oracle failure the task goes on (raw body, decide path) and may still emit
\* an item or follow links; and the run goes on
C12_FailuresRecovered ==
    /\ [](RecoveredLocally(last))
    /\ RunGoesOn

\* the run ended after three tasks, the last of which met a failed fetch and
\* still emitted an item
C12_Witness ==
    /\ phase = "closed"
    /\ processed = 3
    /\ FetchFailed(last)
    /\ last.outcome = "emitted"

\* nothing of a crawl has happened: no request, no render, no backend call (no
\* callback ran), no item and no file
NothingDone ==
    /\ queue = {} /\ inflight = {} /\ seen = {} /\ visited_urls = {}
    /\ renders = <<>> /\ pagecount = 0 /\ processed = 0
    /\ last = NoRun
    /\ results = <<>>
    /\ files = NoFiles

\* C13: with a missing or placeholder credential the run aborts before any crawl:
\* no seed is enqueued, no page rendered, no backend called, no file written; and
\* a run aborts for no other reason
C13_AbortWithoutCredential ==
    /\ GPT_API_KEY \in {"", PLACEHOLDER_KEY} => (phase \in {"start", "aborted"} /\ NothingDone)
    /\ phase = "aborted" => GPT_API_KEY \in {"", PLACEHOLDER_KEY}

\* the run aborted on the placeholder credential although the seed file held a seed
C13_Witness ==
    /\ phase = "aborted"
    /\ GPT_API_KEY = PLACEHOLDER_KEY
    /\ urls_file.lines = <<Seed1>>

\* what parse makes of the in-flight request r when its response resp arrives and
\* the renderer returns rnd (the oracle deciding, the classifier finding relevance)
ParseOf(r, rnd, resp) ==
    ParseRun(r, rnd, resp, NavObject("decide", "", <<>>), ClsObject(TRUE, "true"),
             visited_urls, GPT_API_KEY, MAX_DEPTH)

\* the renderer failed, or returned a body of fewer than 100 characters
RenderUnusable(rnd) == ~rnd.ok \/ Len(TextOf(rnd.body)) < MIN_CONTENT_LEN

\* C14: when the renderer fails or returns a too-short body and the task has a raw
\* response, the page is processed with the raw body and links, and is discarded
\* only if the raw content is below 100 characters too
C14_RenderFallback ==
    \A r \in inflight, rnd \in RenderOutcomes, resp \in RawResponses :
        (r.url \notin visited_urls /\ RenderUnusable(rnd)) =>
            IF Len(TextOf(resp.text)) >= MIN_CONTENT_LEN
            THEN /\ ParseOf(r, rnd, resp).source = "raw"
                 /\ ParseOf(r, rnd, resp).text_content = TextOf(resp.text)
                 /\ ParseOf(r, rnd, resp).links = ExtractedLinks(resp.anchors, r.url)
                 /\ ParseOf(r, rnd, resp).outcome # "discarded"
            ELSE ParseOf(r, rnd, resp).outcome = "discarded"

\* the children of a run that go to the link the oracle picked, and the others
PickedChildren(run) == {i \in 1..Len(run.spawned) : run.spawned[i].url = run.picked}

ExtraChildren(run) == {i \in 1..Len(run.spawned) : run.spawned[i].url # run.picked}

\* C15: on follow_link below MAX_DEPTH there is exactly one child for the picked
\* URL if it is unvisited (none if it is visited), at most EXTRA_LINKS_ON_FOLLOW
\* other children, and at most 1 + EXTRA_LINKS_ON_FOLLOW children in all
C15_FollowFanout ==
    (last.outcome = "follow" /\ last.depth < MAX_DEPTH) =>
        /\ Cardinality(PickedChildren(last))
              = (IF last.picked \in visited_urls THEN 0 ELSE 1)
        /\ Cardinality(ExtraChildren(last)) <= EXTRA_LINKS_ON_FOLLOW
        /\ Len(last.spawned) <= 1 + EXTRA_LINKS_ON_FOLLOW

\* C16: every child a callback spawns, in any branch of parse and handle_error,
\* goes to a URL that is not in the visited set when it is spawned (the set as the
\* callback leaves it: parse has added the page's own URL before it spawns)
C16_ChildrenUnvisited ==
    \A i \in 1..Len(last.spawned) : last.spawned[i].url \notin visited_urls

\* the structural candidates of a run's page that are not visited, in the scorer's
\* order (the page itself counts as visited on the success path)
UnvisitedCandidates(run) ==
    IF run.links = <<>> THEN <<>>
    ELSE SelectSeq(Candidates(run.links, run.url, MAX_FANOUT_INDEX),
                   LAMBDA c : c.href \notin visited_urls)

\* one child per link of the sequence cands, for the run of their parent
ChildrenFor(run, cands) ==
    [i \in 1..Len(cands) |->
        [url |-> cands[i].href, depth |-> run.depth + 1,
         breadcrumbs |-> Append(run.breadcrumbs, cands[i].href)]]

\* C17: when the relevance check gives no item (not relevant, call failure,
\* unparsable or non-object answer, missing is_relevant, scaffolding) nothing is
\* emitted, and below MAX_DEPTH one child is spawned per unvisited structural
\* candidate, at most MAX_FANOUT_INDEX in all, each at depth + 1; at MAX_DEPTH none
C17_NoVerdictFallsBack ==
    (last.relevance_invoked /\ ~last.item.some) =>
        /\ last.outcome = "fallback"
        /\ \A i \in 1..Len(results) : results[i].url # last.url
        /\ Len(last.spawned) <= MAX_FANOUT_INDEX
        /\ last.spawned =
              (IF last.depth < MAX_DEPTH
               THEN ChildrenFor(last, UnvisitedCandidates(last))
               ELSE <<>>)

\* the classifier answered without a verdict of relevance, and the page's two
\* candidates were scheduled
C17_Witness ==
    /\ last.relevance_invoked
    /\ last.classifier_called
    /\ last.cls_kind = "object"
    /\ ~last.item.some
    /\ last.depth < MAX_DEPTH
    /\ Len(last.spawned) = MAX_FANOUT_INDEX

\* the run obtained no content (the render failed and there is no raw response) or
\* content of fewer than 100 characters
NoUsableContent(run) ==
    \/ run.handler = "handle_error" /\ ~run.rendered_ok
    \/ run.source \in {"renderer", "raw"} /\ Len(run.text_content) < MIN_CONTENT_LEN

\* C18: a task without usable content is discarded: no item, no child, no oracle
\* and no classifier call; the gate is the same for rendered and raw content, in
\* parse and in handle_error; and no other task is discarded
C18_ContentGate ==
    /\ NoUsableContent(last) =>
          /\ last.outcome = "discarded"
          /\ ~last.gate_passed
          /\ ~last.item.some
          /\ last.spawned = <<>>
          /\ ~last.decision_made /\ ~last.oracle_called
          /\ ~last.relevance_invoked /\ ~last.classifier_called
    /\ last.outcome = "discarded" => NoUsableContent(last)
    /\ last.source \in {"renderer", "raw"} =>
          (last.gate_passed = (Len(last.text_content) >= MIN_CONTENT_LEN))

\* parse: the render failed and the raw body is too short
C18_Witness ==
    /\ last.handler = "parse"
    /\ ~last.rendered_ok
    /\ last.source = "raw"
    /\ Len(last.text_content) < MIN_CONTENT_LEN
    /\ last.outcome = "discarded"

\* the positions of the input whose link is a qualified candidate: a non-empty
\* href (stripped) not met before, same-site, not disqualified
FirstOccurrences(links) ==
    {j \in 1..Len(links) :
        /\ Strip(links[j].href) # ""
        /\ \A k \in 1..(j - 1) : Strip(links[k].href) # Strip(links[j].href)}

ScoreAt(links, j, base_url) ==
    structural_score_link(Strip(links[j].href), Strip(links[j].text), base_url)

Qualified(links, base_url) ==
    {j \in FirstOccurrences(links) :
        /\ same_site(Strip(links[j].href), UrlNetloc(base_url))
        /\ ScoreAt(links, j, base_url) > DISQUALIFIED}

\* position j ranks before position k: a higher score, or the same and met earlier
RanksBefore(links, j, k, base_url) ==
    \/ ScoreAt(links, j, base_url) > ScoreAt(links, k, base_url)
    \/ ScoreAt(links, j, base_url) = ScoreAt(links, k, base_url) /\ j < k

\* the position the i-th link returned comes from
OriginOf(links, out, i) ==
    CHOOSE j \in FirstOccurrences(links) : Strip(links[j].href) = out[i].href

\* C19: the filter returns at most max_out links, with distinct hrefs, each the
\* first occurrence of its href and a qualified candidate, by non-increasing score
\* and encounter order among equals; they are the min(max_out, number qualified)
\* highest-ranked qualified candidates
C19_FilterRanking ==
    probe.op = "filter" =>
        /\ Len(probe.out) <= probe.max_out
        /\ \A i, k \in 1..Len(probe.out) : i # k => probe.out[i].href # probe.out[k].href
        /\ \A i \in 1..Len(probe.out) :
              \E j \in Qualified(probe.links, probe.base_url) :
                 probe.out[i] = [href |-> Strip(probe.links[j].href),
                                 text |-> Strip(probe.links[j].text)]
        /\ \A i \in 1..(Len(probe.out) - 1) :
              RanksBefore(probe.links, OriginOf(probe.links, probe.out, i),
                          OriginOf(probe.links, probe.out, i + 1), probe.base_url)
        /\ Len(probe.out) =
              (IF Cardinality(Qualified(probe.links, probe.base_url)) < probe.max_out
               THEN Cardinality(Qualified(probe.links, probe.base_url))
               ELSE probe.max_out)
        /\ \A j \in Qualified(probe.links, probe.base_url) :
              \/ \E i \in 1..Len(probe.out) : OriginOf(probe.links, probe.out, i) = j
              \/ \A i \in 1..Len(probe.out) :
                    RanksBefore(probe.links, OriginOf(probe.links, probe.out, i), j,
                                probe.base_url)

\* four links of equal score and max_out = 2: the first two, in their order
C19_Witness ==
    /\ probe.op = "filter"
    /\ Len(probe.links) = 4
    /\ probe.max_out = 2
    /\ probe.out = <<[href |-> "http://x.com/a", text |-> "1"],
                     [href |-> "http://x.com/b", text |-> "2"]>>

\* the tasks a state knows: scheduled, being downloaded, and just created by the
\* callback that ran last (kept or not by the duplicate filter)
TasksCreated == queue \cup inflight \cup {last.spawned[i] : i \in 1..Len(last.spawned)}

SeedUrls == {Strip(urls_file.lines[i]) : i \in 1..Len(urls_file.lines)} \ {""}

TaskWellFormed(t) ==
    /\ t.breadcrumbs # <<>>
    /\ t.depth = Len(t.breadcrumbs) - 1
    /\ t.breadcrumbs[Len(t.breadcrumbs)] = t.url
    /\ t.breadcrumbs[1] \in SeedUrls
    /\ t.depth = 0 => t.url \in SeedUrls /\ t.breadcrumbs = <<t.url>>

\* C20: every task has depth = len(breadcrumbs) - 1 and its URL as last
\* breadcrumb; a task of depth 0 is a seed with breadcrumbs [seed]; each child a
\* callback creates has its parent's depth + 1 and its parent's breadcrumbs + [its
\* URL], whatever breadcrumbs the oracle echoed
C20_Lineage ==
    /\ \A t \in TasksCreated : TaskWellFormed(t)
    /\ last.handler # "none" =>
          /\ last.depth = Len(last.breadcrumbs) - 1
          /\ \A i \in 1..Len(last.spawned) :
                last.spawned[i] = [url |-> last.spawned[i].url,
                                   depth |-> last.depth + 1,
                                   breadcrumbs |-> Append(last.breadcrumbs,
                                                          last.spawned[i].url)]

\* a page of depth 1 for which the oracle answered "/a/b/c.html" with breadcrumbs
\* of its own: the child has the page's breadcrumbs and one more
C20_Witness ==
    /\ last.handler = "parse"
    /\ last.depth = 1
    /\ last.picked = UrlA
    /\ last.spawned # <<>>
    /\ last.spawned[1] = [url |-> UrlA, depth |-> 2,
                          breadcrumbs |-> Append(last.breadcrumbs, UrlA)]

ClassifiedOrFollowed(run) == run.relevance_invoked \/ run.outcome = "follow"

\* C22: a task whose content passed the gate (a navigation decision was asked
\* for) is then classified or has its link-following branch executed, whatever the
\* oracle answered; it never ends with neither
C22_ClassifyOrFollow ==
    last.decision_made => ClassifiedOrFollowed(last)

\* C23: for a response that is one JSON object between code fences and/or prose
\* (prose with braces after the object included) safe_parse_gpt_json returns the
\* object; it returns nothing only for a response that holds no JSON object
C23_FirstBalancedObject ==
    probe.op = "safe_parse" =>
        /\ probe.object # "" =>
              probe.out = [some |-> TRUE, object |-> JsonObjects[probe.object]]
        /\ ~probe.out.some => probe.object = ""

\* the order of one callback's steps, read off its record: content before the
\* decision, the decision before the classifier, an item only from the classifier
PipelineInOrder(run) ==
    /\ run.oracle_called => run.decision_made
    /\ run.decision_made =>
          /\ run.renderer_invoked
          /\ run.source \in {"renderer", "raw"}
          /\ Len(run.text_content) >= MIN_CONTENT_LEN
    /\ run.relevance_invoked => run.decision_made /\ run.decision \in {"none", "decide"}
    /\ run.classifier_called => run.relevance_invoked
    /\ run.item.some => run.classifier_called /\ run.outcome = "emitted"
    /\ run.outcome = "emitted" => run.item.some /\ run.spawned = <<>>
    /\ run.outcome = "follow" => ~run.relevance_invoked /\ ~run.item.some

\* one step of the run collects at most one item, and a step that collects one
\* hands no request to the scheduler
EmittedIsTerminal ==
    /\ Len(results') <= Len(results) + 1
    /\ Len(results') = Len(results) + 1 =>
          /\ SubSeq(results', 1, Len(results)) = results
          /\ queue' = queue /\ seen' = seen
          /\ last'.spawned = <<>>

\* C24: in every task the oracle is consulted only on content that passed the
\* 100-character gate and the classifier only once the navigation decision is there;
\* a task emits at most one item, and a task that emits one spawns no child
C24_SequentialAndExclusive ==
    [](PipelineInOrder(last)) /\ [][EmittedIsTerminal]_vars

\* a page at depth 0 with unvisited candidates went through oracle and classifier
\* and was emitted: no child, though the depth allowed some
C24_Witness ==
    /\ last.handler = "parse"
    /\ last.outcome = "emitted"
    /\ last.oracle_called /\ last.classifier_called
    /\ last.depth < MAX_DEPTH
    /\ UnvisitedCandidates(last) # <<>>
    /\ last.spawned = <<>>
    /\ queue = {}

\* nothing is written before the run ends, and the two files are written once
WrittenOnceAtTheEnd ==
    /\ [](phase # "closed" => files = NoFiles)
    /\ [](phase = "closed" => files.writes = 1 /\ files.debug = results)
    /\ [][phase = "closed" => FALSE]_vars

\* C25 as stated: a crawl that has started reaches a state with no task queued or
\* in flight, the files are written then, once, and nothing is written before
C25_Termination ==
    /\ (phase = "crawling") ~> (phase = "closed")
    /\ [](phase = "closed" => queue = {} /\ inflight = {})
    /\ WrittenOnceAtTheEnd

\* C25, amended: a crawl that has started ends with no task in flight, and with
\* none queued unless the page budget closed the run; the files are written
\* then, once, and nothing is written before
C25_TerminationOrBudget ==
    /\ (phase = "crawling") ~> (phase = "closed")
    /\ [](phase = "closed" => inflight = {} /\ (queue = {} \/ closing))
    /\ [](phase = "closed" /\ queue # {} => pagecount >= MAX_PAGES_BUDGET)
    /\ WrittenOnceAtTheEnd

\* the page budget closed the run with a task still queued; the files were
\* written once
C25_Witness ==
    /\ phase = "closed"
    /\ closing
    /\ queue # {}
    /\ inflight = {}
    /\ files.writes = 1
    /\ files.debug = results

\* the steps in their order
OrchSteps == <<"api_harvester", "scraper", "email_writer">>

AllStepsSucceeded(o) == o.outcomes = <<"returned", "returned", "returned">>

\* the conditions under which the instance is to be stopped
ShutdownDue(o) ==
    /\ o.args.instance_id # "" /\ o.args.region # ""
    /\ o.args.always_shutdown \/ (o.args.shutdown_on_success /\ AllStepsSucceeded(o))

\* C26: the steps run in the order harvester, scraper, email writer, a later one
\* only if every earlier one returned without raising; once main is through, a stop
\* of the instance has been requested (once) if and only if instance id and region
\* are both given and --always-shutdown is set or --shutdown-on-success is set and
\* all steps succeeded; nothing is requested before the steps are over
C26_Orchestrator ==
    orch.pc # "idle" =>
        /\ Len(orch.steps) <= 3
        /\ orch.steps = SubSeq(OrchSteps, 1, Len(orch.steps))
        /\ \A i \in 1..(Len(orch.steps) - 1) : orch.outcomes[i] = "returned"
        /\ orch.ok = AllStepsSucceeded(orch)
        /\ orch.pc # "done" => orch.stop_requests = <<>>
        /\ orch.pc = "done" =>
              /\ ShutdownDue(orch) <=>
                    orch.stop_requests = <<[instance_id |-> orch.args.instance_id,
                                            region |-> orch.args.region]>>
              /\ ~ShutdownDue(orch) <=> orch.stop_requests = <<>>
              /\ (~orch.args.always_shutdown /\ ~AllStepsSucceeded(orch)) =>
                    orch.stop_requests = <<>>

\* the scraper raised, the email writer never ran, and --always-shutdown alone had
\* the instance stopped
C26_Witness ==
    /\ orch.pc = "done"
    /\ orch.args.always_shutdown /\ ~orch.args.shutdown_on_success
    /\ orch.steps = <<"api_harvester", "scraper">>
    /\ orch.outcomes = <<"returned", "raised">>
    /\ Len(orch.stop_requests) = 1

====
